---- MODULE Spec2Model ----
(***************************************************************************)
(* Verification model of the aerospike C client's connection core:         *)
(*   - the per-node synchronous connection sub-pools (as_node.c),          *)
(*   - the libev command state machine and wakeup queue (as_event_ev.c,    *)
(*     stored in this tree as src/src/include/citrusleaf/cl_write.h).      *)
(* Each group of variables has its own Init/Next; the other groups are     *)
(* held at their initial value by that specification.                      *)
(***************************************************************************)
EXTENDS Integers, Sequences, FiniteSets, Bags, TLC

(***************************************************************************)
(* Bounds of the model.                                                    *)
(***************************************************************************)
NumThreads == 2
MaxPools == 2
MaxConns == 2
MaxBlocks == 3
MaxRetries == 1
MaxWrite == 2
MaxAuth == 1
MaxPipe == 3
MaxExec == 4
MaxLogins == 2
MaxRacks == 3
MaxSwaps == 3
MaxValues == 2

(***************************************************************************)
(* uint32_t values are kept as their 32-bit pattern read as a signed       *)
(* integer: 0 - 1 is -1, the pattern 0xFFFFFFFF.  Comparison is unsigned.  *)
(***************************************************************************)
U32Less(a, b) == IF (a < 0) = (b < 0) THEN a < b ELSE b < 0

VARIABLES
    conn_pools_per_node,  \* cluster->conn_pools_per_node
    user,                 \* cluster->user != NULL
    total,                \* pool -> queue.total (reservation counter)
    queue,                \* pool -> idle sockets, head first
    conn_iter,            \* node->conn_iter
    perform_login,        \* node->perform_login
    thr,                  \* bag of the sync command threads' locals (as_node_get_connection)
    sweep                 \* tend thread inside as_node_close_idle_connections

poolVars == <<conn_pools_per_node, user, total, queue, conn_iter, perform_login,
              thr, sweep>>

VARIABLES
    loop_queue,           \* event_loop->queue: executables, 0 the null one
    wakeup_pending,       \* ev_async_send was called, as_ev_wakeup not yet run
    wakeup,               \* as_ev_wakeup: where it is, its size, i, status, cmd
    next_exec,            \* number of the next executable handed in
    snapshot,             \* the queue as as_ev_wakeup found it under the lock
    executed,             \* executables invoked by the current as_ev_wakeup
    accepted,             \* what as_event_execute returned true for, in push order
    invoked,              \* executables invoked by all runs of as_ev_wakeup
    as_event_threads_created,  \* the library created the loop threads
    event_loop            \* wakeup watcher started, reactor running, resources alive

wakeVars == <<loop_queue, wakeup_pending, wakeup, next_exec, snapshot, executed,
              accepted, invoked,
              as_event_threads_created, event_loop>>

VARIABLES
    pipe,                 \* the as_pipe_connection: writer, readers, watching
    pipe_pc,              \* position of the loop thread inside as_ev_callback
    pipe_next,            \* number of the next command given to the connection
    pipe_written,         \* commands in the order their request was written
    pipe_called,          \* commands in the order their response was delivered
    pipe_obs              \* the last read event: what it found, whom it went to

pipeVars == <<pipe, pipe_pc, pipe_next, pipe_written, pipe_called, pipe_obs>>

VARIABLES
    tls_ctx,              \* as_socket_use_tls(cluster->tls_ctx)
    stream,               \* body sizes of the blocks the server answers with
    cmd,                  \* the as_event_command and its as_event_connection
    ev_pc                 \* position of the loop thread inside as_ev_callback

evVars == <<tls_ctx, stream, cmd, ev_pc>>

VARIABLES
    session,              \* node->session_token, session_token_length, session_expiration
    freed,                \* session tokens that were given to cf_free
    login,                \* the tend thread inside as_node_ensure_login / as_node_login
    auth_thr,             \* the threads inside as_node_create_connection, lines 366-377
    logins,               \* successful logins so far
    owed_signals,         \* compare-and-swaps won whose tend_cond signal is yet to come
    wins_since_login,     \* perform_login 0 -> 1 changes since the last successful login
    signals_since_login   \* tend_cond signals since the last successful login

loginVars == <<session, freed, login, auth_thr, logins, owed_signals, wins_since_login,
               signals_since_login>>

VARIABLES
    rack_sent,            \* the rack-ids value as the server composed it
    rack_buf,             \* the bytes as_node_parse_racks is given to read
    rack_tend,            \* the tend thread's position in as_node_parse_racks
    node_racks,           \* node->racks: the published snapshot, 0 for NULL
    rack_heap,            \* every as_racks that was allocated and published
    cluster_gc,           \* cluster->gc: snapshots waiting for their release
    rack_thr              \* the threads inside as_node_has_rack

rackVars == <<rack_sent, rack_buf, rack_tend, node_racks, rack_heap, cluster_gc, rack_thr>>

VARIABLES
    active,               \* node->active
    info_socket,          \* node->info_socket: its descriptor, -1 when closed
    peers_generation,     \* node->peers_generation
    partition_generation, \* node->partition_generation
    rebalance_generation, \* node->rebalance_generation
    changed,              \* node->partition_changed, node->rebalance_changed
    refresh               \* the last refresh call: what it was sent and what it returned

refreshVars == <<active, info_socket, peers_generation, partition_generation, rebalance_generation,
                 changed, refresh>>

VARIABLES
    aliases,              \* node->aliases: the stored hostname and port pairs
    alias_call,           \* the last as_node_add_alias call and the list it found
    addresses,            \* node->addresses: the AS_ADDRESS6_MAX slots
    address4_size,        \* node->address4_size
    address6_size,        \* node->address6_size
    address_call          \* the last as_node_add_address call

hostVars == <<aliases, alias_call, addresses, address4_size, address6_size, address_call>>

VARIABLES
    address_index,        \* node->address_index: the slot that connected last
    connect               \* the last connect: what it tried and what it returned

connVars == <<address_index, connect>>

VARIABLES
    proto                 \* the as_proto header of an info request: its values and its eight bytes

protoVars == <<proto>>

\* no header has been written
NoProto == proto = [pc |-> "none", sz |-> <<>>, type |-> 0, version |-> 0, bytes |-> <<>>]

VARIABLES
    server_record,        \* the bins the server holds under the key, or NoRecord
    key_call              \* the last aerospike_key_* call: its command and its result

keyVars == <<server_record, key_call>>

\* the bins of the records
BinNames == {"a", "e"}

\* a bin without a value
NoValue == <<>>

\* a key without a record: no bin has a value
NoRecord == [b \in BinNames |-> NoValue]

\* no aerospike_key_* call has been made and the server holds nothing under the key
NoKeyCall ==
    /\ server_record = NoRecord
    /\ key_call = [fn |-> "none", status |-> "none", ops |-> <<>>, read_attr |-> {},
                   write_attr |-> {}, write |-> FALSE, rec |-> NoRecord, after |-> "none",
                   put |-> NoRecord]

VARIABLES
    policy                \* the last as_policy_*_resolve call: global, local and the result

policyVars == <<policy>>

\* no policy has been resolved
NoPolicy == policy = [fn |-> "idle", global |-> <<>>, local |-> <<>>, p |-> <<>>]

VARIABLES
    attempt               \* per connecting thread: the hint it loaded and has not yet used

hintVars == <<attempt>>

\* the threads that connect: a caller of as_node_create_socket and an event loop
Connectors == {"sync", "async"}

\* no thread is connecting
NoAttempts == attempt = [t \in Connectors |-> [pc |-> "idle", index |-> 0]]

vars == <<poolVars, evVars, pipeVars, wakeVars, loginVars, rackVars, refreshVars, hostVars, connVars, protoVars, keyVars, policyVars, hintVars>>

\* the variables each specification leaves alone
notPool == <<evVars, pipeVars, wakeVars, loginVars, rackVars, refreshVars, hostVars, connVars, protoVars, keyVars, policyVars, hintVars>>
notEv == <<conn_pools_per_node, total, queue, conn_iter, thr, sweep, pipeVars, wakeVars, loginVars, rackVars, refreshVars, hostVars, connVars, protoVars, keyVars, policyVars, hintVars>>
notPipe == <<conn_pools_per_node, total, queue, conn_iter, thr, sweep, cmd, ev_pc, wakeVars, loginVars, rackVars, refreshVars, hostVars, connVars, protoVars, keyVars, policyVars, hintVars>>
notWake == <<poolVars, evVars, pipeVars, loginVars, rackVars, refreshVars, hostVars, connVars, protoVars, keyVars, policyVars, hintVars>>
notLogin == <<conn_pools_per_node, user, total, queue, conn_iter, thr, sweep,
              evVars, pipeVars, wakeVars, rackVars, refreshVars, hostVars, connVars, protoVars, keyVars, policyVars, hintVars>>
notRacks == <<poolVars, evVars, pipeVars, wakeVars, loginVars, refreshVars, hostVars, connVars, protoVars, keyVars, policyVars, hintVars>>
notRefresh == <<poolVars, evVars, pipeVars, wakeVars, loginVars, rackVars, hostVars, connVars, protoVars, keyVars, policyVars, hintVars>>
notHosts == <<poolVars, evVars, pipeVars, wakeVars, loginVars, rackVars, refreshVars, connVars, protoVars, keyVars, policyVars, hintVars>>
notConnect == <<poolVars, evVars, pipeVars, wakeVars, loginVars, rackVars, refreshVars, hostVars, protoVars, keyVars, policyVars, hintVars>>
notProto == <<poolVars, evVars, pipeVars, wakeVars, loginVars, rackVars, refreshVars, hostVars, connVars, keyVars, policyVars, hintVars>>
notKey == <<poolVars, evVars, pipeVars, wakeVars, loginVars, rackVars, refreshVars, hostVars, connVars, protoVars, policyVars, hintVars>>
notPolicy == <<poolVars, evVars, pipeVars, wakeVars, loginVars, rackVars, refreshVars, hostVars, connVars, protoVars, keyVars, hintVars>>
notHint == <<poolVars, evVars, pipeVars, wakeVars, loginVars, rackVars, refreshVars, hostVars, connVars, protoVars, keyVars, policyVars>>

Pools == 0..(conn_pools_per_node - 1)

\* calls of as_node_get_connection that load conn_iter: one round of the
\* preferred sub-pools
MaxIter == conn_pools_per_node

\* cluster->max_conns_per_node
max_conns_per_node == MaxConns

\* cluster->max_socket_idle_ns, in ticks
max_socket_idle_ns == 0

\* no async command exists
NoCommand == [where |-> "none"]

\* a session token: the buffer's identity and the length that belongs to it;
\* the token of the k-th login has length k + 1
Token(k) == [token |-> k, length |-> k + 1]

\* the tend thread is not logging in
IdleLogin == [pc |-> "idle", node_info |-> Token(0), expiration |-> 0, status |-> "none"]

\* a thread outside as_node_create_connection
IdleAuth == [pc |-> "idle", token |-> 0, length |-> 0, observed |-> "none", status |-> "none"]

\* as_node_create, lines 96-98 and 144: the token of the first login
NoLogin ==
    /\ session = [token |-> 0, length |-> Token(0).length, expiration |-> 0]
    /\ freed = {}
    /\ login = IdleLogin
    /\ auth_thr = [r \in {IdleAuth} |-> NumThreads]
    /\ logins = 0
    /\ owed_signals = 0
    /\ wins_since_login = 0
    /\ signals_since_login = 0

\* as_node.h: the IPv4 slots of node->addresses come first, the IPv6 slots
\* are the slots from AS_ADDRESS4_MAX up to AS_ADDRESS6_MAX
AS_ADDRESS4_MAX == 4

AS_ADDRESS6_MAX == 8

\* line 106: as_vector_init(&node->aliases, sizeof(as_alias), 2)
aliases_capacity == 2

\* a slot of node->addresses that was never written
FreeSlot == [family |-> "none", name |-> ""]

NoAliasCall == [hostname |-> [head |-> "", tail |-> ""], port |-> 0, before |-> <<>>,
                again |-> FALSE]

NoAddressCall == [family |-> "none", name |-> "", stored |-> FALSE]

\* no connect has run
NoAttempt == [fn |-> "none", hint |-> 0, connectable |-> {}, sockets |-> {},
              attempts |-> <<>>, rv |-> -1, created |-> 0, closed |-> 0,
              pool |-> FALSE, status |-> "none", decr |-> 0, opened |-> 0,
              conn_freed |-> FALSE, signal_login |-> FALSE, retried |-> FALSE,
              callbacks |-> 0]

\* as_node_create, line 100, for a node discovered at an IPv4 address
NoConnect ==
    /\ address_index = 0
    /\ connect = NoAttempt

\* as_node_create, lines 101-106, before its call of as_node_add_address
NoHosts ==
    /\ aliases = <<>>
    /\ alias_call = NoAliasCall
    /\ addresses = [i \in 0..(AS_ADDRESS6_MAX - 1) |-> FreeSlot]
    /\ address4_size = 0
    /\ address6_size = 0
    /\ address_call = NoAddressCall

\* no refresh has been called
NoCall == [fn |-> "none", status |-> "none", first_bad |-> "none",
           renamed |-> FALSE, unrequested |-> FALSE,
           gen_changed |-> FALSE, reported |-> {}]

\* as_node_create, lines 130-145: the node is active, its info socket is the
\* one its node_info came with, and its generations are unknown
NoRefresh ==
    /\ active = TRUE
    /\ info_socket = [fd |-> 1]
    /\ peers_generation = -1
    /\ partition_generation = -1
    /\ rebalance_generation = -1
    /\ changed = [partition |-> FALSE, rebalance |-> FALSE]
    /\ refresh = NoCall

\* no rack-ids value has arrived
NoRackIds == [entries |-> <<>>, newline |-> TRUE]

\* the tend thread outside as_node_parse_racks
IdleTend == [pc |-> "idle", status |-> "none", racks |-> 0, old |-> 0]

\* a thread outside as_node_has_rack
IdleReader == [pc |-> "idle", racks |-> 0, rack_id |-> 0, result |-> "none"]

\* as_node_create, line 139: node->racks = NULL
NoRacks ==
    /\ rack_sent = NoRackIds
    /\ rack_buf = <<>>
    /\ rack_tend = IdleTend
    /\ node_racks = 0
    /\ rack_heap = <<>>
    /\ cluster_gc = <<>>
    /\ rack_thr = [r \in {IdleReader} |-> NumThreads]

\* as_ev_wakeup is not running
IdleWakeup == [pc |-> "idle", size |-> 0, i |-> 0, status |-> FALSE, cmd |-> 0]

\* as_ev_init_loop, lines 942-948: the wakeup watcher is started; the reactor
\* runs on its thread
RunningLoop == [wakeup_started |-> TRUE, running |-> TRUE, destroyed |-> FALSE]

\* an event loop nobody has handed anything to
QuietLoop ==
    /\ loop_queue = <<>>
    /\ wakeup_pending = FALSE
    /\ wakeup = IdleWakeup
    /\ next_exec = 1
    /\ snapshot = <<>>
    /\ executed = <<>>
    /\ accepted = <<>>
    /\ invoked = <<>>
    /\ event_loop = RunningLoop

\* the loop of a client that supplied its own loop threads
IdleLoop == QuietLoop /\ as_event_threads_created = FALSE

\* no pipelined connection exists
NoPipe == [open |-> FALSE, closed |-> FALSE, writer |-> NoCommand, readers |-> <<>>,
           watching |-> "none"]

NoObs == [seen |-> FALSE, writer |-> 0, readers |-> <<>>, target |-> 0]

IdlePipe ==
    /\ pipe = NoPipe
    /\ pipe_pc = [at |-> "reactor", k |-> 0]
    /\ pipe_next = 1
    /\ pipe_written = <<>>
    /\ pipe_called = <<>>
    /\ pipe_obs = NoObs

\* as_socket: descriptor, owning sub-pool, and the time since last_used
\* (cf_getns() - last_used) in ticks, which stops counting past max idle
NoSock == [id |-> 0, pool |-> 0, idle |-> 0]

\* as_node_create: capacity of sub-pool i
Capacity(i) ==
    LET max == max_conns_per_node \div conn_pools_per_node
        rem == max_conns_per_node - (max * conn_pools_per_node)
    IN IF i < rem THEN max + 1 ELSE max

(***************************************************************************)
(* as_conn_pool / as_queue / as_socket helpers (as_node.h, as_queue.h,     *)
(* as_socket.c)                                                            *)
(***************************************************************************)

\* as_conn_pool_incr: fetch-and-add on queue.total, granted iff old < capacity
as_conn_pool_incr_total(tot, p) == [tot EXCEPT ![p] = @ + 1]

as_conn_pool_incr_granted(tot, p) == U32Less(tot[p], Capacity(p))

\* as_conn_pool_decr: atomic decrement of queue.total
as_conn_pool_decr(tot, p) == [tot EXCEPT ![p] = @ - 1]

\* as_conn_pool_push_tail: as_queue_push_limit under the pool lock
as_conn_pool_push_ok(q, p) == U32Less(Len(q[p]), Capacity(p))

as_conn_pool_push_tail(q, p, s) == [q EXCEPT ![p] = Append(@, s)]

\* as_conn_pool_pop_head / as_conn_pool_pop_tail under the pool lock
as_conn_pool_pop_head(q, p) == [q EXCEPT ![p] = Tail(@)]

as_conn_pool_pop_tail_Head(q, p) == [q EXCEPT ![p] = Tail(@)]

as_conn_pool_pop_tail(q, p) == [q EXCEPT ![p] = SubSeq(@, 1, Len(@) - 1)]

\* as_socket_current: the socket has not been idle longer than max idle
as_socket_current(s) == s.idle <= max_socket_idle_ns

\* the locals of every sync command thread
Locals == BagToSet(thr)

\* a thread has accessed memory past the sub-pool array: undefined behaviour
Undefined == \E r \in Locals : r.pc = "undefined"

\* a step of the sync pools: the process is defined, the event loop is idle
PoolStep == ~Undefined /\ UNCHANGED notPool

\* descriptors of the sockets that are open anywhere
OpenIds ==
    UNION {{queue[p][k].id : k \in 1..Len(queue[p])} : p \in Pools}
    \cup {r.s.id : r \in Locals} \cup {r.sock.id : r \in Locals}
    \cup {sweep.s.id}

IdSpace == 1..(MaxConns + NumThreads + 1)

\* as_socket_create: the descriptor of a new socket (lowest free one)
NewFd == CHOOSE i \in IdSpace : i \notin OpenIds /\ \A j \in IdSpace : j \notin OpenIds => i <= j

\* a thread outside as_node_get_connection that holds no socket
IdleThread ==
    [pc |-> "idle", initial_index |-> 0, pool_index |-> 0, backward |-> FALSE,
     iter |-> 0, pool |-> 0, s |-> NoSock, sock |-> NoSock, probes |-> <<>>]

\* one thread moves from locals r to locals r2
Move(r, r2) == thr' = (thr (-) SetToBag({r})) (+) SetToBag({r2})

(***************************************************************************)
(* as_node_get_connection                                                  *)
(***************************************************************************)

\* lines 411-431: choose the preferred sub-pool.  node->conn_iter++ is not
\* atomic: this step is its load, GetIterStore its store.
GetStart ==
    /\ PoolStep
    /\ conn_iter < MaxIter
    /\ \E r \in Locals :
         /\ r.pc = "idle"
         /\ LET max == conn_pools_per_node
                initial == IF max = 1 THEN 0 ELSE conn_iter % max
            IN Move(r, [IdleThread EXCEPT !.pc = IF max = 1 THEN "pop" ELSE "iter_store",
                                          !.iter = IF max = 1 THEN 0 ELSE conn_iter,
                                          !.initial_index = initial,
                                          !.pool_index = initial,
                                          !.backward = (max # 1),
                                          !.pool = initial])
    /\ UNCHANGED <<conn_pools_per_node, user, total, queue, conn_iter, perform_login, sweep>>

\* line 422: the store half of node->conn_iter++
GetIterStore ==
    \E r \in Locals :
      /\ PoolStep
      /\ r.pc = "iter_store"
      /\ conn_iter' = r.iter + 1
      /\ Move(r, [r EXCEPT !.pc = "pop", !.iter = 0])
      /\ UNCHANGED <<conn_pools_per_node, user, total, queue, perform_login, sweep>>

\* as_socket_validate: 0 (healthy) needs a socket that is not idle too long
\* and a peer that is silent and still connected (peer_ok)
as_socket_validate(s, peer_ok) == IF as_socket_current(s) /\ peer_ok THEN 0 ELSE -1

\* a socket in a thread's hands: last_used is not read again before
\* as_node_put_connection stamps it
InHand(s, pool) == [id |-> s.id, pool |-> pool, idle |-> 0]

\* lines 434-445: pop the head of the sub-pool and validate it.  With pool
\* past the end of node->sync_conn_pools, as_conn_pool_pop_head locks and
\* reads whatever the heap holds there: the behaviour of the process is
\* undefined from this access on (fault, hang, stray grant, corrupted heap)
\* and the model describes no further step of it.
GetPop ==
    \E r \in Locals :
      /\ PoolStep
      /\ r.pc = "pop"
      /\ IF r.pool \notin Pools
         THEN /\ Move(r, [r EXCEPT !.pc = "undefined"])
              /\ UNCHANGED queue
         ELSE IF Len(queue[r.pool]) > 0
              THEN /\ queue' = as_conn_pool_pop_head(queue, r.pool)
                   /\ \E peer_ok \in BOOLEAN :
                        LET s == Head(queue[r.pool]) IN
                        IF as_socket_validate(s, peer_ok) = 0
                        THEN Move(r, [IdleThread EXCEPT !.pc = "leased",
                                                        !.sock = InHand(s, r.pool)])
                        ELSE Move(r, [r EXCEPT !.pc = "close_invalid",
                                               !.s = InHand(s, s.pool)])
              ELSE /\ Move(r, [r EXCEPT !.pc = "incr"])
                   /\ UNCHANGED queue
      /\ UNCHANGED <<conn_pools_per_node, user, total, conn_iter, perform_login, sweep>>

InvalidRelease_Twice(tot, p) == as_conn_pool_decr(as_conn_pool_decr(tot, p), p)

\* line 448: as_node_close_connection(&s) releases the socket's reservation
InvalidRelease(tot, p) == as_conn_pool_decr(tot, p)

\* lines 447-448: close the invalid socket; the loop pops again
GetCloseInvalid ==
    \E r \in Locals :
      /\ PoolStep
      /\ r.pc = "close_invalid"
      /\ total' = InvalidRelease(total, r.s.pool)
      /\ Move(r, [r EXCEPT !.pc = "pop", !.s = NoSock])
      /\ UNCHANGED <<conn_pools_per_node, user, queue, conn_iter, perform_login, sweep>>

Admit_Always(tot, p) == TRUE

\* line 450: a connection is created only when as_conn_pool_incr grants it
Admit(tot, p) == as_conn_pool_incr_granted(tot, p)

\* line 450: as_conn_pool_incr(pool)
GetIncr ==
    \E r \in Locals :
      /\ PoolStep
      /\ r.pc = "incr"
      /\ total' = as_conn_pool_incr_total(total, r.pool)
      /\ IF Admit(total, r.pool)
         THEN Move(r, [r EXCEPT !.pc = "create"])
         ELSE Move(r, [r EXCEPT !.pc = "full", !.probes = Append(@, r.pool)])
      /\ UNCHANGED <<conn_pools_per_node, user, queue, conn_iter, perform_login, sweep>>

\* lines 459-474: the next sub-pool index to probe, or "break"
NextProbe(pool_index, initial_index, backward, max) ==
    IF backward
    THEN IF pool_index > 0
         THEN [brk |-> FALSE, pool_index |-> pool_index - 1, backward |-> TRUE]
         ELSE IF initial_index + 1 >= max
              THEN [brk |-> TRUE, pool_index |-> initial_index + 1, backward |-> TRUE]
              ELSE [brk |-> FALSE, pool_index |-> initial_index + 1, backward |-> FALSE]
    ELSE IF pool_index + 1 >= max
         THEN [brk |-> TRUE, pool_index |-> pool_index + 1, backward |-> FALSE]
         ELSE [brk |-> FALSE, pool_index |-> pool_index + 1, backward |-> FALSE]

\* line 475: pool = &pool[pool_index], an offset from the current sub-pool
NextPool(pool, pool_index) == pool + pool_index

FullRelease_None(tot, p) == tot

\* line 457: the compensating release after a refused reservation
FullRelease(tot, p) == as_conn_pool_decr(tot, p)

\* the locals of r after lines 459-475, when the loop goes on
Advance(r) ==
    LET n == NextProbe(r.pool_index, r.initial_index, r.backward, conn_pools_per_node)
    IN [r EXCEPT !.pc = "pop", !.pool_index = n.pool_index, !.backward = n.backward,
                 !.pool = NextPool(r.pool, n.pool_index)]

\* r is about to leave the loop at line 467 or 473
Breaks(r) == NextProbe(r.pool_index, r.initial_index, r.backward, conn_pools_per_node).brk

\* lines 455-481: the sub-pool is empty and full; release, move on or fail
\* with AEROSPIKE_ERR_NO_MORE_CONNECTIONS
GetFull ==
    \E r \in Locals :
      /\ PoolStep
      /\ r.pc = "full"
      /\ total' = FullRelease(total, r.pool)
      /\ IF Breaks(r) THEN Move(r, IdleThread) ELSE Move(r, Advance(r))
      /\ UNCHANGED <<conn_pools_per_node, user, queue, conn_iter, perform_login, sweep>>

(***************************************************************************)
(* as_node_create_connection / as_node_create_socket                       *)
(***************************************************************************)

\* lines 336-341: no address could be connected; release the reservation
CreateSocketFailed(tot, pool) == as_conn_pool_decr(tot, pool)

\* lines 370-377: authentication failed; close the socket, release the slot
AuthFailed(tot, pool) == as_conn_pool_decr(tot, pool)

\* as_node_signal_login, line 512: compare-and-swap perform_login 0 -> 1
as_node_signal_login(pl) == IF pl = 0 THEN 1 ELSE pl

\* as_node_create_connection, lines 355-381: connect a socket for the
\* reserved slot (as_node_create_socket) and authenticate it when the
\* cluster has a user; each failure releases the reservation
CreateConnection ==
    \E r \in Locals :
      /\ PoolStep
      /\ r.pc = "create"
      /\ \E outcome \in {"ok", "connect_failed", "auth_failed"} :
           /\ outcome = "auth_failed" => user
           /\ CASE outcome = "ok" ->
                     /\ Move(r, [IdleThread EXCEPT !.pc = "leased",
                                    !.sock = [id |-> NewFd, pool |-> r.pool, idle |-> 0]])
                     /\ UNCHANGED <<total, perform_login>>
                [] outcome = "connect_failed" ->
                     /\ total' = CreateSocketFailed(total, r.pool)
                     /\ Move(r, IdleThread)
                     /\ UNCHANGED perform_login
                [] OTHER ->
                     /\ perform_login' = as_node_signal_login(perform_login)
                     /\ total' = AuthFailed(total, r.pool)
                     /\ Move(r, IdleThread)
      /\ UNCHANGED <<conn_pools_per_node, user, queue, conn_iter, sweep>>

(***************************************************************************)
(* The caller's end of a lease (as_node.h)                                 *)
(***************************************************************************)

\* as_node_put_connection: stamp last_used and return the socket to its
\* sub-pool; close it and release the reservation when the queue is full
PutConnection ==
    \E r \in Locals :
      /\ PoolStep
      /\ r.pc = "leased"
      /\ LET sock == [r.sock EXCEPT !.idle = 0]
             pool == sock.pool
         IN IF as_conn_pool_push_ok(queue, pool)
            THEN /\ queue' = as_conn_pool_push_tail(queue, pool, sock)
                 /\ UNCHANGED total
            ELSE /\ total' = as_conn_pool_decr(total, pool)
                 /\ UNCHANGED queue
      /\ Move(r, IdleThread)
      /\ UNCHANGED <<conn_pools_per_node, user, conn_iter, perform_login, sweep>>

\* as_node_close_connection: close the socket, release its reservation
CloseConnection ==
    \E r \in Locals :
      /\ PoolStep
      /\ r.pc = "leased"
      /\ total' = as_conn_pool_decr(total, r.sock.pool)
      /\ Move(r, IdleThread)
      /\ UNCHANGED <<conn_pools_per_node, user, queue, conn_iter, perform_login, sweep>>

(***************************************************************************)
(* as_node_close_idle_connections (tend thread)                            *)
(***************************************************************************)

IdleSweep == [pc |-> "idle", i |-> 0, s |-> NoSock]

\* the tend thread enters as_node_close_idle_connections
SweepStart ==
    /\ PoolStep
    /\ sweep.pc = "idle"
    /\ sweep' = [IdleSweep EXCEPT !.pc = "pop"]
    /\ UNCHANGED <<conn_pools_per_node, user, total, queue, conn_iter, perform_login, thr>>

\* lines 490-495: pop the tail of sub-pool i and test its idle time
SweepPop ==
    /\ PoolStep
    /\ sweep.pc = "pop"
    /\ IF sweep.i >= conn_pools_per_node
       THEN /\ sweep' = IdleSweep
            /\ UNCHANGED queue
       ELSE IF Len(queue[sweep.i]) = 0
            THEN /\ sweep' = [sweep EXCEPT !.i = @ + 1]
                 /\ UNCHANGED queue
            ELSE LET s == queue[sweep.i][Len(queue[sweep.i])] IN
                 /\ queue' = as_conn_pool_pop_tail(queue, sweep.i)
                 /\ sweep' = [sweep EXCEPT !.s = s,
                                           !.pc = IF as_socket_current(s)
                                                  THEN "push_back" ELSE "close"]
    /\ UNCHANGED <<conn_pools_per_node, user, total, conn_iter, perform_login, thr>>

SweepKept_NoBreak(sw) == [sw EXCEPT !.pc = "close"]

\* line 500: break; the sweep goes on with the next sub-pool
SweepKept(sw) == [sw EXCEPT !.pc = "pop", !.s = NoSock, !.i = @ + 1]

\* lines 496-500: the socket is current; put it back and leave this sub-pool
SweepPushBack ==
    /\ PoolStep
    /\ sweep.pc = "push_back"
    /\ IF as_conn_pool_push_ok(queue, sweep.i)
       THEN /\ queue' = as_conn_pool_push_tail(queue, sweep.i, sweep.s)
            /\ UNCHANGED total
       ELSE /\ total' = as_conn_pool_decr(total, sweep.i)
            /\ UNCHANGED queue
    /\ sweep' = SweepKept(sweep)
    /\ UNCHANGED <<conn_pools_per_node, user, conn_iter, perform_login, thr>>

\* lines 502-503: the socket is too old; close it and release its reservation
SweepClose ==
    /\ PoolStep
    /\ sweep.pc = "close"
    /\ total' = as_conn_pool_decr(total, sweep.i)
    /\ sweep' = [sweep EXCEPT !.pc = "pop", !.s = NoSock]
    /\ UNCHANGED <<conn_pools_per_node, user, queue, conn_iter, perform_login, thr>>

\* one tick older, up to "longer than max idle"
Older(s) == [s EXCEPT !.idle = IF @ > max_socket_idle_ns THEN @ ELSE @ + 1]

\* cf_getns() advances by one tick: every socket that carries a last_used
\* stamp (in a queue, or in the sweep's hands) has been idle one tick longer
Tick ==
    /\ PoolStep
    /\ queue' = [p \in Pools |-> [k \in 1..Len(queue[p]) |-> Older(queue[p][k])]]
    /\ sweep' = IF sweep.s.id = 0 THEN sweep ELSE [sweep EXCEPT !.s = Older(@)]
    /\ UNCHANGED <<conn_pools_per_node, user, total, conn_iter, perform_login, thr>>

(***************************************************************************)
(* The node after as_node_create, and the pool specification               *)
(***************************************************************************)

InitPool ==
    /\ conn_pools_per_node \in 1..MaxPools
    /\ user = TRUE
    /\ total = [p \in Pools |-> 0]
    /\ queue = [p \in Pools |-> <<>>]
    /\ conn_iter = 0
    /\ perform_login = 0
    /\ thr = [r \in {IdleThread} |-> NumThreads]
    /\ sweep = IdleSweep
    /\ tls_ctx = FALSE
    /\ stream = <<>>
    /\ cmd = NoCommand
    /\ ev_pc = "reactor"
    /\ IdlePipe
    /\ IdleLoop
    /\ NoAttempts
    /\ NoPolicy
    /\ NoKeyCall
    /\ NoProto
    /\ NoConnect
    /\ NoHosts
    /\ NoRefresh
    /\ NoRacks
    /\ NoLogin

NextPoolStep ==
    \/ GetStart
    \/ GetIterStore
    \/ GetPop
    \/ GetCloseInvalid
    \/ GetIncr
    \/ GetFull
    \/ CreateConnection
    \/ PutConnection
    \/ CloseConnection
    \/ SweepStart
    \/ SweepPop
    \/ SweepPushBack
    \/ SweepClose
    \/ Tick

SpecPool == InitPool /\ [][NextPoolStep]_vars

(***************************************************************************)
(* Properties of the sync sub-pools                                        *)
(***************************************************************************)

\* number of threads whose locals satisfy Cond
Count(Cond(_)) == BagCardinality([r \in {x \in Locals : Cond(x)} |-> thr[r]])

\* sockets of sub-pool p leased to a caller
Leased(p) == LET C(r) == r.pc = "leased" /\ r.sock.pool = p IN Count(C)

\* threads between a refused as_conn_pool_incr(p) and its compensating decr
Refused(p) == LET C(r) == r.pc = "full" /\ r.pool = p IN Count(C)

\* C1: for every sync sub-pool, idle sockets in the queue plus leased
\* sockets never exceed the sub-pool's capacity.
C1_NoOverAdmission ==
    \A p \in Pools : Len(queue[p]) + Leased(p) <= Capacity(p)

\* C1 witness: a sub-pool is leased up to its capacity and a second thread
\* probing it has just been refused.
C1_Witness ==
    \E p \in Pools : /\ Capacity(p) > 0
                     /\ Leased(p) = Capacity(p)
                     /\ Refused(p) > 0

\* C2 as claimed: the reservation counter is never negative and never
\* exceeds the capacity, also between a refused attempt and its release.
C2_Original ==
    \A p \in Pools : total[p] >= 0 /\ total[p] <= Capacity(p)

\* C2 amended: the reservation counter is never negative and exceeds the
\* capacity by at most the number of threads that are between a refused
\* as_conn_pool_incr and its compensating as_conn_pool_decr.
C2_Amended ==
    \A p \in Pools : total[p] >= 0 /\ total[p] <= Capacity(p) + Refused(p)

\* C2 witness: a refused attempt has pushed the counter past the capacity.
C2_Witness ==
    \E p \in Pools : Refused(p) > 0 /\ total[p] = Capacity(p) + Refused(p)

\* how many holders (queue slots, threads, the sweep) have socket i
Holders(i) ==
    LET InQueue(p) == Cardinality({k \in 1..Len(queue[p]) : queue[p][k].id = i})
        QSum[n \in 0..conn_pools_per_node] ==
            IF n = 0 THEN 0 ELSE QSum[n - 1] + InQueue(n - 1)
        Popped(r) == r.s.id = i
        Out(r) == r.sock.id = i
    IN QSum[conn_pools_per_node] + Count(Popped) + Count(Out)
       + (IF sweep.s.id = i THEN 1 ELSE 0)

\* C3: a socket is held by at most one party: it is in at most one queue
\* slot of one sub-pool, or in the hands of one thread, or of the sweep.
C3_SingleHolder ==
    \A i \in IdSpace : Holders(i) <= 1

\* C3 witness: a caller probing a sub-pool found its queue empty while the
\* sweep, or another caller, had that sub-pool's socket in its hands.
C3_Witness ==
    \E r \in Locals :
        /\ r.pc = "incr"
        /\ r.pool \in Pools
        /\ \/ sweep.pc = "push_back" /\ sweep.i = r.pool
           \/ \E r2 \in Locals : r2.pc = "close_invalid" /\ r2.s.pool = r.pool

\* the sub-pools refused so far in this call, the one being refused included
ProbedSet(r) == {r.probes[k] : k \in 1..Len(r.probes)}

\* C5 as claimed: a call fails with AEROSPIKE_ERR_NO_MORE_CONNECTIONS only
\* after every one of the node's sub-pools was probed and found empty and
\* full.
C5_Original ==
    \A r \in Locals : (r.pc = "full" /\ Breaks(r)) => ProbedSet(r) = Pools

\* the probe order p, p-1, ..., 0, p+1, ..., N-1
ProbeOrder(p, n) ==
    [k \in 1..n |-> IF k <= p + 1 THEN p + 1 - k ELSE k - 1]

\* C6 as claimed: the sub-pools refused in one call are a prefix of
\* p, p-1, ..., 0, p+1, ..., N-1: all inside [0, N), none twice.
C6_Original ==
    \A r \in Locals :
        /\ Len(r.probes) <= conn_pools_per_node
        /\ r.probes = SubSeq(ProbeOrder(r.initial_index, conn_pools_per_node),
                             1, Len(r.probes))

(***************************************************************************)
(* The libev command state machine (as_event_ev.c): one async command on   *)
(* a non-pipelined connection of its own.                                  *)
(***************************************************************************)

\* sizeof(as_proto), sizeof(as_msg)
sizeof_as_proto == 8
sizeof_as_msg == 22

\* cmd->write_len of the request and of the authentication request
write_len == MaxWrite

\* cmd->read_capacity when the authentication response arrives
read_capacity == MaxAuth

\* cmd->max_retries
max_retries == MaxRetries

\* body sizes a block can declare: the end marker's size, or more
BodySizes == {sizeof_as_msg, sizeof_as_msg + 1}

\* responses of the server: 1..MaxBlocks blocks, the parser reports finished
\* on the last one
RECURSIVE Streams(_)
Streams(n) ==
    IF n = 0 THEN {<<>>}
    ELSE LET S == Streams(n - 1)
         IN S \cup {Append(q, z) : q \in {x \in S : Len(x) = n - 1}, z \in BodySizes}

\* no I/O failure on this connection so far
NoFailure == [kind |-> "none", state |-> "NONE", partial |-> FALSE]

\* calls of cmd->parse_results on this connection: how many, and whether any
\* of them was given a body that was still compressed
NotParsed == [n |-> 0, raw |-> FALSE]

\* the command handed to as_event_execute for its first attempt
NewCommand ==
    [where |-> "queued", state |-> "NONE", pos |-> 0, len |-> 0,
     watching |-> "none", iteration |-> 0, proto_type_rcv |-> "msg",
     blk |-> 0, cycles |-> 0, ndone |-> 0, nerror |-> 0,
     auth_ok |-> FALSE, signal_login |-> FALSE, touched |-> FALSE,
     answered |-> FALSE, failure |-> NoFailure, body |-> "none", parsed |-> NotParsed,
     pending |-> FALSE]

\* result of a function that returns a code and may have changed the command
Out(rv, m) == [rv |-> rv, m |-> m]

\* the connection is closed and freed: nothing is watched, no I/O position
Released(m) == [m EXCEPT !.watching = "none", !.pos = 0, !.len = 0]

\* as_event_error_callback: deliver the error to the user, free the command
as_event_error_callback(m) == [m EXCEPT !.nerror = @ + 1, !.where = "freed"]

\* as_event_socket_error: stop watcher and timer, close the connection,
\* error callback
as_event_socket_error(m) == as_event_error_callback(Released(m))

as_event_parse_error_Retry(m) ==
    IF m.iteration < max_retries
    THEN [Released(m) EXCEPT !.iteration = @ + 1, !.where = "queued"]
    ELSE as_event_error_callback(Released(m))

\* as_event_parse_error: close the connection, error callback; no retry
as_event_parse_error(m) == as_event_error_callback(Released(m))

\* as_event_command_retry: retries remain; the command is queued again for
\* as_event_command_begin
as_event_command_retry(m) == m.iteration < max_retries

Requeue(m) == [m EXCEPT !.iteration = @ + 1, !.where = "queued"]

\* as_event_socket_retry: close the connection, then as_event_command_retry
as_event_socket_retry(m) == as_event_command_retry(m)

\* the failure an I/O call reported: its kind (the text of the error the
\* code builds for it), the state of the command and whether part of the
\* buffer had been transferred
IoFailure(kind, m) ==
    [m EXCEPT !.failure = [kind |-> kind, state |-> m.state, partial |-> m.pos > 0]]

\* failures of send/write and read on a plain socket (bytes < 0 with an
\* errno other than would-block, bytes = 0), and of the TLS calls (rv < -2)
WriteFailures == IF tls_ctx THEN {"TLS write failed"}
                 ELSE {"Socket write failed", "Socket write closed by peer"}

ReadFailures == IF tls_ctx THEN {"TLS read failed"}
                ELSE {"Socket read failed", "Socket read closed by peer"}

\* as_tls_connect_once: rv < -2, rv = 0
ConnectFailures == {"TLS connection failed", "TLS connection shutdown"}

SocketFailure_Both(m) == as_event_socket_error(Requeue(m))

\* lines 1054-1059, 1087-1100, 1138-1143, 1168-1181, 1382-1388, 1399-1404:
\* if (! as_event_socket_retry(cmd)) as_event_socket_error(cmd, &err)
SocketFailure(m) ==
    IF as_event_socket_retry(m) THEN Requeue(Released(m)) ELSE as_event_socket_error(m)

\* bytes of the response to the current request that the server has sent
HasData(m) ==
    /\ m.where = "conn"
    /\ \/ m.state \in {"AUTH_READ_HEADER", "AUTH_READ_BODY"}
       \/ m.state \in {"COMMAND_READ_HEADER", "COMMAND_READ_BODY"} /\ m.blk < Len(stream)

\* positions one call of as_ev_read or as_ev_write can stop at: the socket
\* takes nothing, one byte, or everything that is left
Progress(m) == {p \in {m.pos, m.pos + 1, m.len} : p <= m.len}

\* as_ev_read, lines 1114-1187: read until pos = len, the socket would
\* block, TLS asks for a write, or the read fails
as_ev_read(m) ==
    IF m.where # "conn"
    THEN {Out("READ_ERROR", SocketFailure(IoFailure(k, m))) : k \in ReadFailures}
    ELSE LET at(p) == [m EXCEPT !.pos = p,
                                !.watching = IF tls_ctx /\ p > m.pos THEN "read" ELSE @]
         IN UNION {
              IF p = m.len
              THEN {Out("READ_COMPLETE", at(p))}
              ELSE {Out("READ_INCOMPLETE", [at(p) EXCEPT !.watching = "read"])}
                   \cup {Out("READ_ERROR", SocketFailure(IoFailure(k, at(p))))
                         : k \in ReadFailures}
                   \cup (IF tls_ctx
                         THEN {Out("TLS_NEED_WRITE", [at(p) EXCEPT !.watching = "write"])}
                         ELSE {})
              : p \in IF HasData(m) THEN Progress(m) ELSE {m.pos} }

\* as_ev_write, lines 1030-1112
as_ev_write(m) ==
    LET at(p) == [m EXCEPT !.pos = p,
                           !.watching = IF tls_ctx /\ p > m.pos THEN "write" ELSE @]
    IN UNION {
         IF p = m.len
         THEN {Out("WRITE_COMPLETE", at(p))}
         ELSE {Out("WRITE_INCOMPLETE", [at(p) EXCEPT !.watching = "write"])}
              \cup {Out("WRITE_ERROR", SocketFailure(IoFailure(k, at(p))))
                    : k \in WriteFailures}
              \cup (IF tls_ctx
                    THEN {Out("TLS_NEED_READ", [at(p) EXCEPT !.watching = "read"])}
                    ELSE {})
         : p \in Progress(m) }

\* as_ev_command_read_start, lines 1189-1202 (pipe_listener == NULL)
as_ev_command_read_start(m) ==
    [m EXCEPT !.len = sizeof_as_proto, !.pos = 0, !.state = "COMMAND_READ_HEADER",
              !.watching = "read"]

\* as_event_set_write / as_event_set_auth_write: the request buffer
as_event_set_write(m) == [m EXCEPT !.pos = 0, !.len = write_len]

\* as_event_command_write_start, lines 1204-1215: the commands it can leave
as_event_command_write_start(m) ==
    LET w == [as_event_set_write(m) EXCEPT !.state = "COMMAND_WRITE", !.watching = "write"]
    IN {IF o.rv = "WRITE_COMPLETE" THEN as_ev_command_read_start(o.m) ELSE o.m
        : o \in as_ev_write(w)}

\* as_event_proto_parse: a bad header is a parse error; a good one leaves its
\* type in cmd->proto_type_rcv
as_event_proto_parse(m) ==
    {[ok |-> FALSE, m |-> as_event_parse_error(m)]}
    \cup {[ok |-> TRUE, m |-> [m EXCEPT !.proto_type_rcv = t]] : t \in {"msg", "compressed"}}

\* the body of block blk + 1 has been read: one header+body cycle is over
BodyRead(m) ==
    [m EXCEPT !.pos = 0, !.blk = @ + 1, !.cycles = @ + 1,
              !.body = IF m.proto_type_rcv = "compressed" THEN "compressed" ELSE "plain"]

\* as_event_response_complete and the user's callback: the result is
\* delivered, the connection goes back to its pool, the command is freed
Complete(m) ==
    [Released(m) EXCEPT !.ndone = @ + 1, !.state = "DONE", !.where = "freed",
                        !.answered = TRUE]

\* as_event_response_error: the server answered with an error code; the
\* connection is kept, the error callback is delivered
as_event_response_error(m) == [as_event_error_callback(Released(m)) EXCEPT !.answered = TRUE]

\* cmd->parse_results: finished on the last block of the response, with the
\* result or the server's error code; a malformed record is a parse error
parse_results(m) ==
    LET c == [m EXCEPT !.parsed = [n |-> @.n + 1, raw |-> @.raw \/ m.body = "compressed"]]
    IN IF c.blk = Len(stream)
       THEN {[finished |-> TRUE, m |-> Complete(c)],
             [finished |-> TRUE, m |-> as_event_response_error(c)]}
       ELSE {[finished |-> FALSE, m |-> c],
             [finished |-> TRUE, m |-> as_event_parse_error(c)]}

\* as_event_decompress: failure is a parse error
as_event_decompress(m) ==
    {[ok |-> FALSE, m |-> as_event_parse_error(IoFailure("Decompress failed", m))],
     [ok |-> TRUE, m |-> [m EXCEPT !.body = "plain"]]}

\* proto->sz of the header just read
ProtoSize(m) == stream[m.blk + 1]

\* a peek that takes every body of the end block's size for the end block
PeekEndBlock_SizeOnly(b) ==
    UNION { IF o.rv # "READ_COMPLETE"
            THEN {o}
            ELSE {Out("COMMAND_DONE", Complete(BodyRead(o.m)))}
            : o \in as_ev_read(b) }

\* lines 1243-1261 of as_ev_command_peek_block: a body of the end block's size
PeekEndBlock(b) ==
    UNION { IF o.rv # "READ_COMPLETE"
            THEN {o}
            ELSE { IF pr.finished
                   THEN Out("COMMAND_DONE", pr.m)
                   ELSE Out("READ_COMPLETE",
                            [pr.m EXCEPT !.len = sizeof_as_proto, !.pos = 0,
                                         !.state = "COMMAND_READ_HEADER"])
                   : pr \in parse_results(BodyRead(o.m)) }
            : o \in as_ev_read(b) }

IsEndBlockSize_AnyType(b) == b.len = sizeof_as_msg

\* line 1243: the block has the end block's size and is not compressed
IsEndBlockSize(b) == b.len = sizeof_as_msg /\ b.proto_type_rcv # "compressed"

\* as_ev_command_peek_block, lines 1217-1276
as_ev_command_peek_block(m) ==
    LET h == [m EXCEPT !.len = sizeof_as_proto, !.pos = 0, !.state = "COMMAND_READ_HEADER"]
    IN UNION { IF o.rv # "READ_COMPLETE"
               THEN {o}
               ELSE UNION { IF ~q.ok
                            THEN {Out("READ_ERROR", q.m)}
                            ELSE LET b == [q.m EXCEPT !.len = ProtoSize(q.m), !.pos = 0,
                                                      !.state = "COMMAND_READ_BODY"]
                                 IN IF IsEndBlockSize(b)
                                    THEN PeekEndBlock(b)
                                    ELSE {Out("READ_COMPLETE", b)}
                            : q \in as_event_proto_parse(o.m) }
               : o \in as_ev_read(h) }

\* lines 1356-1374 of as_ev_command_read: read the body, decompress, parse
ReadBody(b) ==
    UNION { IF o.rv # "READ_COMPLETE"
            THEN {o}
            ELSE UNION { IF ~d.ok
                         THEN {Out("READ_ERROR", d.m)}
                         ELSE UNION { IF pr.finished
                                      THEN {Out("COMMAND_DONE", pr.m)}
                                      ELSE as_ev_command_peek_block(pr.m)
                                      : pr \in parse_results(d.m) }
                         : d \in IF o.m.proto_type_rcv = "compressed"
                                 THEN as_event_decompress(BodyRead(o.m))
                                 ELSE {[ok |-> TRUE, m |-> BodyRead(o.m)]} }
            : o \in as_ev_read(b) }

\* as_ev_command_read, lines 1322-1375
as_ev_command_read(m) ==
    IF m.state = "COMMAND_READ_HEADER"
    THEN UNION { IF o.rv # "READ_COMPLETE"
                 THEN {o}
                 ELSE UNION { IF ~q.ok
                              THEN {Out("READ_ERROR", q.m)}
                              ELSE ReadBody([q.m EXCEPT !.len = ProtoSize(q.m), !.pos = 0,
                                                        !.state = "COMMAND_READ_BODY"])
                              : q \in as_event_proto_parse(o.m) }
                 : o \in as_ev_read(m) }
    ELSE ReadBody(m)

\* as_event_set_auth_parse_header: a bad header is a parse error; a good one
\* declares the size of the body
as_event_set_auth_parse_header(m) ==
    {[ok |-> FALSE, m |-> as_event_parse_error(m)]}
    \cup {[ok |-> TRUE, m |-> [m EXCEPT !.len = n, !.pos = 0, !.state = "AUTH_READ_BODY"]]
          : n \in 1..(read_capacity + 1)}

\* lines 1301-1319 of as_ev_parse_authentication: read the body, check the
\* result code, start the command
AuthBody(b) ==
    UNION { IF o.rv # "READ_COMPLETE"
            THEN {o}
            ELSE {Out("READ_ERROR",
                      [as_event_parse_error(IoFailure("Authentication failed", o.m))
                       EXCEPT !.signal_login = TRUE])}
                 \cup {Out("READ_COMPLETE", w)
                       : w \in as_event_command_write_start([o.m EXCEPT !.auth_ok = TRUE])}
            : o \in as_ev_read(b) }

\* as_ev_parse_authentication, lines 1278-1320
as_ev_parse_authentication(m) ==
    IF m.state = "AUTH_READ_HEADER"
    THEN UNION { IF o.rv # "READ_COMPLETE"
                 THEN {o}
                 ELSE UNION { IF ~q.ok
                              THEN {Out("READ_ERROR", q.m)}
                              ELSE IF q.m.len > read_capacity
                                   THEN {Out("READ_ERROR",
                                             as_event_parse_error(IoFailure(
                                                 "Authenticate response size is corrupt", q.m)))}
                                   ELSE AuthBody(q.m)
                              : q \in as_event_set_auth_parse_header(o.m) }
                 : o \in as_ev_read(m) }
    ELSE AuthBody(m)

\* as_ev_tls_connect, lines 1377-1420: {failed, need read, need write, done}
as_ev_tls_connect(m) ==
    {[ok |-> FALSE, m |-> SocketFailure(IoFailure(k, m))] : k \in ConnectFailures}
    \cup
    {[ok |-> TRUE, m |-> [m EXCEPT !.watching = "read"]],
     [ok |-> TRUE, m |-> [m EXCEPT !.watching = "write"]],
     [ok |-> TRUE,
      m |-> [as_event_set_write(m) EXCEPT
               !.state = IF user THEN "AUTH_WRITE" ELSE "COMMAND_WRITE",
               !.watching = "write"]]}

\* as_event_set_auth_read_header
as_event_set_auth_read_header(m) ==
    [m EXCEPT !.len = sizeof_as_proto, !.pos = 0, !.state = "AUTH_READ_HEADER"]

\* as_tls_read_pending(&cmd->conn->socket) > 0: the reads of this round left
\* decrypted bytes of the same response in the TLS buffer.  The server sends
\* the response to the command only after it got the command.
Pending(m, loop) ==
    IF /\ tls_ctx
       /\ HasData(m)
       /\ (loop = "auth_loop") = (m.state \in {"AUTH_READ_HEADER", "AUTH_READ_BODY"})
    THEN BOOLEAN
    ELSE {FALSE}

\* one turn of as_ev_callback_common's switch, lines 1422-1497: the command
\* it leaves, where the loop thread is next (back in the reactor, or going
\* round the do-while it is in), and whether the turn used the command after
\* it was released
Turn(m, next, uaf) == [m |-> m, next |-> next, uaf |-> uaf]

\* a callback that goes back to the reactor after one round whatever the TLS
\* layer reports
ReadTurn_Once(outs, loop) ==
    UNION { IF o.rv \in {"COMMAND_DONE", "READ_ERROR"}
            THEN {Turn(o.m, "reactor", FALSE)}
            ELSE IF o.m.where # "conn"
                 THEN {Turn(o.m, loop, TRUE)}
                 ELSE LET n == IF o.rv = "READ_COMPLETE"
                               THEN [o.m EXCEPT !.watching = "read"]
                               ELSE o.m
                      IN {Turn([n EXCEPT !.pending = a], "reactor", FALSE)
                          : a \in Pending(n, loop)}
            : o \in outs }

\* lines 1438-1452 and 1460-1474: one round of a read loop; cmd.pending is
\* what as_tls_read_pending reported at the while
ReadTurn(outs, loop) ==
    UNION { IF o.rv \in {"COMMAND_DONE", "READ_ERROR"}
            THEN {Turn(o.m, "reactor", FALSE)}
            ELSE IF o.m.where # "conn"
                 THEN {Turn(o.m, loop, TRUE)}
                 ELSE LET n == IF o.rv = "READ_COMPLETE"
                               THEN [o.m EXCEPT !.watching = "read"]
                               ELSE o.m
                      IN {Turn([n EXCEPT !.pending = a], IF a THEN loop ELSE "reactor", FALSE)
                          : a \in Pending(n, loop)}
            : o \in outs }

\* lines 1426-1431: the handshake loop; a failed as_ev_tls_connect returns
TlsTurn(outs) ==
    UNION { IF ~t.ok
            THEN {Turn(t.m, "reactor", FALSE)}
            ELSE {Turn([t.m EXCEPT !.pending = a], IF a THEN "tls_loop" ELSE "reactor", FALSE)
                  : a \in Pending(t.m, "tls_loop")}
            : t \in outs }

as_ev_callback_common(m) ==
    CASE m.state = "TLS_CONNECT" -> TlsTurn(as_ev_tls_connect(m))
      [] m.state \in {"AUTH_READ_HEADER", "AUTH_READ_BODY"} ->
           ReadTurn(as_ev_parse_authentication(m), "auth_loop")
      [] m.state \in {"COMMAND_READ_HEADER", "COMMAND_READ_BODY"} ->
           ReadTurn(as_ev_command_read(m), "command_loop")
      [] m.state \in {"AUTH_WRITE", "COMMAND_WRITE"} ->
           {Turn(IF o.rv # "WRITE_COMPLETE" THEN o.m
                 ELSE IF o.m.state = "AUTH_WRITE"
                      THEN [as_event_set_auth_read_header(o.m) EXCEPT !.watching = "read"]
                      ELSE as_ev_command_read_start(o.m),
                 "reactor", FALSE)
            : o \in as_ev_write([m EXCEPT !.watching = "write"])}
      [] OTHER -> {Turn(m, "reactor", FALSE)}

\* a watcher init that starts every connection with the command itself
as_ev_watcher_init_NoAuth(m) ==
    [as_event_set_write(m) EXCEPT !.where = "conn", !.watching = "write", !.blk = 0,
                                  !.cycles = 0, !.auth_ok = FALSE,
                                  !.failure = NoFailure, !.body = "none",
                                  !.parsed = NotParsed, !.pending = FALSE,
                                  !.state = "COMMAND_WRITE"]

\* as_ev_watcher_init, lines 1549-1573 (pipe_listener == NULL)
as_ev_watcher_init(m) ==
    LET c == [m EXCEPT !.where = "conn", !.watching = "write", !.blk = 0, !.cycles = 0,
                       !.auth_ok = FALSE, !.failure = NoFailure, !.body = "none",
                       !.parsed = NotParsed, !.pending = FALSE]
    IN IF tls_ctx
       THEN [c EXCEPT !.state = "TLS_CONNECT"]
       ELSE IF user
            THEN [as_event_set_write(c) EXCEPT !.state = "AUTH_WRITE"]
            ELSE [as_event_set_write(c) EXCEPT !.state = "COMMAND_WRITE"]

\* as_ev_connect_error, lines 1638-1657
as_ev_connect_error(m) ==
    IF as_event_command_retry(m) THEN Requeue(m) ELSE as_event_error_callback(m)

\* as_event_connect, lines 1659-1707, run by as_event_command_begin on the
\* loop thread: some address connects, or none does
as_event_connect ==
    /\ ev_pc = "reactor"
    /\ cmd.where = "queued"
    /\ \E connected \in BOOLEAN :
         cmd' = IF connected THEN as_ev_watcher_init(cmd) ELSE as_ev_connect_error(cmd)
    /\ UNCHANGED <<tls_ctx, stream, ev_pc, user, perform_login>>
    /\ UNCHANGED notEv

\* what a turn leaves behind.  A turn that used the released command or its
\* freed connection (as_ev_watch_read at line 1446, as_tls_read_pending at
\* line 1452) has undefined behaviour: the process faults, or the freed
\* memory still reads as it was left and the callback goes on with it.
AfterTurn(t) ==
    /\ perform_login' = IF t.m.signal_login THEN as_node_signal_login(perform_login)
                        ELSE perform_login
    /\ IF t.uaf
       THEN \E stale \in BOOLEAN, pending \in (IF tls_ctx THEN BOOLEAN ELSE {FALSE}) :
              /\ cmd' = [t.m EXCEPT !.signal_login = FALSE, !.touched = TRUE]
              /\ ev_pc' = IF ~stale THEN "undefined"
                          ELSE IF pending THEN t.next ELSE "reactor"
       ELSE /\ cmd' = [t.m EXCEPT !.signal_login = FALSE]
            /\ ev_pc' = t.next
    /\ UNCHANGED <<tls_ctx, stream, user>>
    /\ UNCHANGED notEv

\* as_ev_callback, lines 1499-1547: the watcher reports the readiness the
\* connection is registered for; cmd = conn->cmd
as_ev_callback ==
    /\ ev_pc = "reactor"
    /\ cmd.where = "conn"
    /\ cmd.watching # "none"
    /\ \E t \in as_ev_callback_common(cmd) : AfterTurn(t)

\* lines 1438-1452: the authentication loop goes round again
as_ev_callback_auth_again ==
    /\ ev_pc = "auth_loop"
    /\ \E t \in ReadTurn(as_ev_parse_authentication(cmd), "auth_loop") : AfterTurn(t)

\* lines 1460-1474: the response loop goes round again
as_ev_callback_command_again ==
    /\ ev_pc = "command_loop"
    /\ \E t \in ReadTurn(as_ev_command_read(cmd), "command_loop") : AfterTurn(t)

InitEv ==
    /\ tls_ctx \in BOOLEAN
    /\ user \in BOOLEAN
    /\ stream \in Streams(MaxBlocks) \ {<<>>}
    /\ cmd = NewCommand
    /\ ev_pc = "reactor"
    /\ IdlePipe
    /\ IdleLoop
    /\ NoAttempts
    /\ NoPolicy
    /\ NoKeyCall
    /\ NoProto
    /\ NoConnect
    /\ NoHosts
    /\ NoRefresh
    /\ NoRacks
    /\ NoLogin
    /\ conn_pools_per_node = 1
    /\ total = [p \in Pools |-> 0]
    /\ queue = [p \in Pools |-> <<>>]
    /\ conn_iter = 0
    /\ perform_login = 0
    /\ thr = [r \in {IdleThread} |-> NumThreads]
    /\ sweep = IdleSweep

NextEv ==
    \/ as_event_connect
    \/ as_ev_callback
    \/ as_ev_callback_auth_again
    \/ as_ev_callback_command_again

SpecEv == InitEv /\ [][NextEv]_vars

(***************************************************************************)
(* Pipelined connections: as_ev_callback with conn->pipeline.  One          *)
(* as_pipe_connection carries at most one command being written            *)
(* (pipe->writer) and a list of commands whose request is out and whose    *)
(* response is awaited (pipe->readers).                                    *)
(***************************************************************************)

\* the k-th command given to the connection; a pipelined command is never
\* retried on a socket failure
PipeCommand(k) ==
    [NewCommand EXCEPT !.iteration = max_retries] @@ [id |-> k]

PipeId(m) == IF m = NoCommand THEN 0 ELSE m.id

PipeIds(q) == [i \in 1..Len(q) |-> q[i].id]

\* a read event that goes to the command whose request was written last
PipeReadTarget_Tail(writer, readers) ==
    IF writer # NoCommand /\ Len(readers) = 0
    THEN 0
    ELSE Len(readers) - (IF Len(readers) > 0 THEN 0 ELSE 1)

\* lines 1506-1525 of as_ev_callback: the command a read event goes to:
\* 0 the writer, 1 the head of the readers, -1 "Pipeline read event ignored"
PipeReadTarget(writer, readers) ==
    IF writer # NoCommand /\ Len(readers) = 0
    THEN 0
    ELSE IF Len(readers) > 0 THEN 1 ELSE -1

\* the command in slot k of the connection, seen through its connection
PipeAt(k) ==
    [(IF k = 0 THEN pipe.writer ELSE pipe.readers[k]) EXCEPT !.watching = pipe.watching]

RemoveAt(q, k) == [i \in 1..(Len(q) - 1) |-> IF i < k THEN q[i] ELSE q[i + 1]]

PipePc(at, k) == [at |-> at, k |-> k]

\* what a turn on the command in slot k leaves on the connection
PipeAfter(k, t) ==
    LET m == [t.m EXCEPT !.signal_login = FALSE] IN
    IF m.where # "conn"
    THEN IF m.answered
         THEN \* as_pipe_response_complete / as_pipe_response_error: the
              \* command leaves the readers, its callback is delivered
              /\ pipe' = [pipe EXCEPT !.readers = RemoveAt(@, k),
                                      !.watching = IF tls_ctx THEN "read" ELSE @]
              /\ pipe_called' = Append(pipe_called, m.id)
              /\ pipe_pc' = PipePc("reactor", 0)
              /\ UNCHANGED pipe_written
         ELSE \* as_pipe_socket_error: the connection is cancelled, every
              \* command on it gets the error callback.  A turn that went
              \* on with the released command faults or reads stale memory.
              /\ pipe' = [NoPipe EXCEPT !.open = TRUE, !.closed = TRUE]
              /\ \E stale \in (IF t.uaf THEN BOOLEAN ELSE {TRUE}) :
                   pipe_pc' = PipePc(IF stale THEN "reactor" ELSE "undefined", 0)
              /\ UNCHANGED <<pipe_written, pipe_called>>
    ELSE IF k = 0 /\ m.state = "COMMAND_READ_HEADER"
         THEN \* as_pipe_read_start, line 1200: the writer becomes the last reader
              /\ pipe' = [pipe EXCEPT !.writer = NoCommand,
                                      !.readers = Append(@, m),
                                      !.watching = m.watching]
              /\ pipe_written' = Append(pipe_written, m.id)
              /\ pipe_pc' = PipePc(t.next, Len(pipe.readers) + 1)
              /\ UNCHANGED pipe_called
         ELSE /\ pipe' = IF k = 0
                         THEN [pipe EXCEPT !.writer = m, !.watching = m.watching]
                         ELSE [pipe EXCEPT !.readers[k] = m, !.watching = m.watching]
              /\ pipe_pc' = PipePc(t.next, k)
              /\ UNCHANGED <<pipe_written, pipe_called>>

PipeStep ==
    /\ UNCHANGED <<tls_ctx, stream, user, perform_login>>
    /\ UNCHANGED notPipe

\* as_pipe_get_connection and as_event_command_begin: the next command becomes
\* the writer of the connection, which is opened for the first one
\* (as_event_connect, as_ev_watcher_init) and written to at once for the
\* others (as_event_command_write_start)
as_pipe_get_connection ==
    /\ pipe_pc.at = "reactor"
    /\ pipe.writer = NoCommand
    /\ ~pipe.closed
    /\ pipe_next <= MaxPipe
    /\ pipe_next' = pipe_next + 1
    /\ IF ~pipe.open
       THEN \E connected \in BOOLEAN :
              /\ pipe' = IF connected
                         THEN [pipe EXCEPT !.open = TRUE,
                                           !.writer = as_ev_watcher_init(PipeCommand(pipe_next)),
                                           !.watching = "write"]
                         ELSE pipe
              /\ UNCHANGED <<pipe_pc, pipe_written, pipe_called>>
       ELSE \E w \in as_event_command_write_start(
                        [PipeCommand(pipe_next) EXCEPT !.where = "conn",
                                                       !.watching = pipe.watching]) :
              PipeAfter(0, Turn(w, "reactor", FALSE))
    /\ UNCHANGED pipe_obs
    /\ PipeStep

\* as_ev_callback with EV_READ set, lines 1502-1532
as_ev_callback_pipe_read ==
    /\ pipe_pc.at = "reactor"
    /\ pipe.open /\ ~pipe.closed
    /\ pipe.watching # "none"
    /\ LET k == PipeReadTarget(pipe.writer, pipe.readers) IN
         /\ pipe_obs' = [seen |-> TRUE, writer |-> PipeId(pipe.writer),
                         readers |-> PipeIds(pipe.readers),
                         target |-> IF k < 0 THEN 0 ELSE PipeId(PipeAt(k))]
         /\ IF k < 0
            THEN UNCHANGED <<pipe, pipe_pc, pipe_written, pipe_called>>
            ELSE \E t \in as_ev_callback_common(PipeAt(k)) : PipeAfter(k, t)
    /\ UNCHANGED pipe_next
    /\ PipeStep

\* as_ev_callback with EV_WRITE and not EV_READ, lines 1533-1539: the
\* command is pipe->writer, which as_ev_callback_common dereferences
as_ev_callback_pipe_write ==
    /\ pipe_pc.at = "reactor"
    /\ pipe.open /\ ~pipe.closed
    /\ pipe.watching = "write"
    /\ IF pipe.writer = NoCommand
       THEN /\ pipe_pc' = PipePc("undefined", 0)
            /\ UNCHANGED <<pipe, pipe_written, pipe_called>>
       ELSE \E t \in as_ev_callback_common(PipeAt(0)) : PipeAfter(0, t)
    /\ UNCHANGED <<pipe_next, pipe_obs>>
    /\ PipeStep

\* lines 1438-1452: the authentication loop goes round again with its command
as_ev_callback_pipe_auth_again ==
    /\ pipe_pc.at = "auth_loop"
    /\ \E t \in ReadTurn(as_ev_parse_authentication(PipeAt(pipe_pc.k)), "auth_loop") :
         PipeAfter(pipe_pc.k, t)
    /\ UNCHANGED <<pipe_next, pipe_obs>>
    /\ PipeStep

\* lines 1460-1474: the response loop goes round again with its command
as_ev_callback_pipe_command_again ==
    /\ pipe_pc.at = "command_loop"
    /\ \E t \in ReadTurn(as_ev_command_read(PipeAt(pipe_pc.k)), "command_loop") :
         PipeAfter(pipe_pc.k, t)
    /\ UNCHANGED <<pipe_next, pipe_obs>>
    /\ PipeStep

InitPipe ==
    /\ tls_ctx \in BOOLEAN
    /\ user \in BOOLEAN
    /\ stream \in Streams(1) \ {<<>>}    \* record commands: one block
    /\ cmd = NoCommand
    /\ ev_pc = "reactor"
    /\ pipe = NoPipe
    /\ pipe_pc = PipePc("reactor", 0)
    /\ pipe_next = 1
    /\ pipe_written = <<>>
    /\ pipe_called = <<>>
    /\ pipe_obs = NoObs
    /\ IdleLoop
    /\ NoAttempts
    /\ NoPolicy
    /\ NoKeyCall
    /\ NoProto
    /\ NoConnect
    /\ NoHosts
    /\ NoRefresh
    /\ NoRacks
    /\ NoLogin
    /\ conn_pools_per_node = 1
    /\ total = [p \in Pools |-> 0]
    /\ queue = [p \in Pools |-> <<>>]
    /\ conn_iter = 0
    /\ perform_login = 0
    /\ thr = [r \in {IdleThread} |-> NumThreads]
    /\ sweep = IdleSweep

NextPipe ==
    \/ as_pipe_get_connection
    \/ as_ev_callback_pipe_read
    \/ as_ev_callback_pipe_write
    \/ as_ev_callback_pipe_auth_again
    \/ as_ev_callback_pipe_command_again

SpecPipe == InitPipe /\ [][NextPipe]_vars

(***************************************************************************)
(* The cross-thread queue of an event loop: as_event_execute and            *)
(* as_ev_wakeup.                                                           *)
(***************************************************************************)

\* as_queue_push under event_loop->lock, lines 972-975: false when the queue
\* cannot grow
as_queue_push(q, e) == {[queued |-> TRUE, q |-> Append(q, e)], [queued |-> FALSE, q |-> q]}

\* a pop that takes the entry pushed last
as_queue_pop_Last(q) ==
    IF q = <<>> THEN [status |-> FALSE, cmd |-> 0, q |-> q]
    ELSE [status |-> TRUE, cmd |-> q[Len(q)], q |-> SubSeq(q, 1, Len(q) - 1)]

\* as_queue_pop under event_loop->lock: the head, or false on an empty queue
as_queue_pop(q) ==
    IF q = <<>> THEN [status |-> FALSE, cmd |-> 0, q |-> q]
    ELSE [status |-> TRUE, cmd |-> Head(q), q |-> Tail(q)]

\* a close that stops the reactor whoever created its thread
as_event_close_loop_AlwaysUnloop(l) ==
    [l EXCEPT !.wakeup_started = FALSE, !.running = FALSE, !.destroyed = TRUE]

\* as_event_close_loop, lines 881-893: ev_async_stop; ev_unloop only if the
\* client created the event loop; as_event_loop_destroy
as_event_close_loop(l) ==
    [l EXCEPT !.wakeup_started = FALSE,
              !.running = IF as_event_threads_created THEN FALSE ELSE @,
              !.destroyed = TRUE]

\* a handler that pops for as long as the queue has something
MoreToPop_Always(i, size) == TRUE

\* line 919: if (++i < size), with i already incremented
MoreToPop(i, size) == i < size

WakeStep == UNCHANGED notWake

\* as_event_execute, lines 968-981, called on any other thread; the stop
\* request is the null executable
as_event_execute ==
    /\ next_exec <= MaxExec
    /\ wakeup.pc # "closed"
    /\ \E executable \in {0, next_exec} :
         \E r \in as_queue_push(loop_queue, executable) :
           /\ loop_queue' = r.q
           /\ wakeup_pending' = (wakeup_pending \/ r.queued)
           /\ accepted' = IF r.queued THEN Append(accepted, executable) ELSE accepted
    /\ next_exec' = next_exec + 1
    /\ UNCHANGED <<wakeup, snapshot, executed, invoked, as_event_threads_created,
                   event_loop>>
    /\ WakeStep

\* as_ev_wakeup, lines 895-909: size and the first pop under the lock
as_ev_wakeup ==
    /\ wakeup.pc = "idle"
    /\ wakeup_pending
    /\ wakeup_pending' = FALSE
    /\ LET p == as_queue_pop(loop_queue) IN
         /\ loop_queue' = p.q
         /\ wakeup' = [pc |-> IF p.status THEN "while" ELSE "idle", size |-> Len(loop_queue),
                       i |-> 0, status |-> p.status, cmd |-> p.cmd]
    /\ snapshot' = loop_queue
    /\ executed' = <<>>
    /\ UNCHANGED <<next_exec, accepted, invoked, as_event_threads_created, event_loop>>
    /\ WakeStep

\* lines 911-917: the null executable closes the loop; any other is invoked
\* and may itself call as_event_execute on this loop
as_ev_wakeup_executable ==
    /\ wakeup.pc = "while"
    /\ IF wakeup.cmd = 0
       THEN /\ wakeup' = [wakeup EXCEPT !.pc = "closed"]
            /\ event_loop' = as_event_close_loop(event_loop)
            /\ UNCHANGED <<loop_queue, wakeup_pending, next_exec, executed, accepted,
                           invoked>>
       ELSE /\ executed' = Append(executed, wakeup.cmd)
            /\ invoked' = Append(invoked, wakeup.cmd)
            /\ wakeup' = [wakeup EXCEPT !.pc = "next"]
            /\ UNCHANGED event_loop
            /\ \E again \in {a \in BOOLEAN : a => next_exec <= MaxExec} :
                 IF again
                 THEN /\ \E r \in as_queue_push(loop_queue, next_exec) :
                           /\ loop_queue' = r.q
                           /\ wakeup_pending' = (wakeup_pending \/ r.queued)
                           /\ accepted' = IF r.queued THEN Append(accepted, next_exec)
                                          ELSE accepted
                      /\ next_exec' = next_exec + 1
                 ELSE UNCHANGED <<loop_queue, wakeup_pending, next_exec, accepted>>
    /\ UNCHANGED <<snapshot, as_event_threads_created>>
    /\ WakeStep

\* lines 919-926: pop the next one while fewer than size were taken
as_ev_wakeup_next ==
    /\ wakeup.pc = "next"
    /\ IF MoreToPop(wakeup.i + 1, wakeup.size)
       THEN LET p == as_queue_pop(loop_queue) IN
              /\ loop_queue' = p.q
              /\ wakeup' = [wakeup EXCEPT !.i = @ + 1, !.status = p.status, !.cmd = p.cmd,
                                          !.pc = IF p.status THEN "while" ELSE "idle"]
       ELSE /\ wakeup' = [wakeup EXCEPT !.i = @ + 1, !.pc = "idle"]
            /\ UNCHANGED loop_queue
    /\ UNCHANGED <<wakeup_pending, next_exec, snapshot, executed, accepted, invoked,
                   as_event_threads_created, event_loop>>
    /\ WakeStep

InitWake ==
    /\ QuietLoop
    /\ NoAttempts
    /\ NoPolicy
    /\ NoKeyCall
    /\ NoProto
    /\ NoConnect
    /\ NoHosts
    /\ NoRefresh
    /\ NoRacks
    /\ NoLogin
    /\ as_event_threads_created \in BOOLEAN
    /\ IdlePipe
    /\ tls_ctx = FALSE
    /\ user = FALSE
    /\ stream = <<>>
    /\ cmd = NoCommand
    /\ ev_pc = "reactor"
    /\ conn_pools_per_node = 1
    /\ total = [p \in Pools |-> 0]
    /\ queue = [p \in Pools |-> <<>>]
    /\ conn_iter = 0
    /\ perform_login = 0
    /\ thr = [r \in {IdleThread} |-> NumThreads]
    /\ sweep = IdleSweep

NextWake ==
    \/ as_event_execute
    \/ as_ev_wakeup
    \/ as_ev_wakeup_executable
    \/ as_ev_wakeup_next

SpecWake == InitWake /\ [][NextWake]_vars

\* the loop thread keeps running: a signalled wakeup is delivered and a
\* running handler goes on
SpecWakeFair ==
    /\ SpecWake
    /\ WF_vars(as_ev_wakeup)
    /\ WF_vars(as_ev_wakeup_executable)
    /\ WF_vars(as_ev_wakeup_next)

(***************************************************************************)
(* Login: as_node_signal_login, as_node_ensure_login, as_node_login on the  *)
(* tend thread, and the threads that authenticate new connections with     *)
(* node->session_token.  None of the session fields is read or written     *)
(* under a lock or atomically.                                             *)
(***************************************************************************)

\* the locals of every thread that authenticates a connection
AuthLocals == BagToSet(auth_thr)

LoginUndefined == \E r \in AuthLocals : r.pc = "undefined"

LoginStep ==
    /\ ~LoginUndefined
    /\ UNCHANGED notLogin

\* one authenticating thread moves from locals r to locals r2
AuthMove(r, r2) == auth_thr' = (auth_thr (-) SetToBag({r})) (+) SetToBag({r2})

\* what as_authenticate finds behind the pointer and length it was given
Observed(tok, len) ==
    IF tok \in freed THEN "freed"
    ELSE IF len # Token(tok).length THEN "mismatch"
    ELSE "ok"

\* a connection thread that asks for a login whatever as_authenticate returned
AfterAuthenticate_Always(status) == "signal_login"

\* lines 370-377 of as_node_create_connection: a failed as_authenticate
\* goes to as_node_signal_login, a successful one returns
AfterAuthenticate(status) == IF status # "ok" THEN "signal_login" ELSE "idle"

\* the locals that are still live: none once the thread has returned from
\* as_node_create_connection, none but the position inside
\* as_node_signal_login, and the arguments are dead after as_authenticate
Returned(r) ==
    IF r.pc \in {"idle", "cond_signal"} THEN [IdleAuth EXCEPT !.pc = r.pc]
    ELSE [r EXCEPT !.token = 0, !.length = 0]

\* lines 367-368: the arguments node->session_token and
\* node->session_token_length are loaded, in either order
as_node_create_connection_load ==
    /\ \E r \in AuthLocals :
         \/ /\ r.pc = "idle"
            /\ \E first \in {"token", "length"} :
                 AuthMove(r, IF first = "token"
                             THEN [r EXCEPT !.pc = "load_length", !.token = session.token]
                             ELSE [r EXCEPT !.pc = "load_token", !.length = session.length])
         \/ /\ r.pc = "load_length"
            /\ AuthMove(r, [r EXCEPT !.pc = "authenticate", !.length = session.length])
         \/ /\ r.pc = "load_token"
            /\ AuthMove(r, [r EXCEPT !.pc = "authenticate", !.token = session.token])
    /\ UNCHANGED <<session, freed, login, logins, owed_signals, wins_since_login,
                   signals_since_login, perform_login>>
    /\ LoginStep

\* as_authenticate, line 367: sends length bytes from the token buffer.  A
\* freed buffer is undefined behaviour: the thread faults, or sends what the
\* memory holds.  The server accepts or refuses.
as_authenticate ==
    /\ \E r \in AuthLocals :
         /\ r.pc = "authenticate"
         /\ LET o == Observed(r.token, r.length) IN
            \E status \in {"ok", "fail"}, fault \in (IF o = "freed" THEN BOOLEAN ELSE {FALSE}) :
              AuthMove(r, Returned([r EXCEPT !.observed = o, !.status = status,
                                             !.pc = IF fault THEN "undefined"
                                                    ELSE AfterAuthenticate(status)]))
    /\ UNCHANGED <<session, freed, login, logins, owed_signals, wins_since_login,
                   signals_since_login, perform_login>>
    /\ LoginStep

\* a caller that signals whether or not its compare-and-swap changed the flag
SignalLoginWon_Always(before, after) == TRUE

\* line 512: if (as_cas_uint8(&node->perform_login, 0, 1))
SignalLoginWon(before, after) == after # before

\* as_node_signal_login, line 512: the compare-and-swap
as_node_signal_login_cas ==
    /\ \E r \in AuthLocals :
         /\ r.pc = "signal_login"
         /\ perform_login' = as_node_signal_login(perform_login)
         /\ AuthMove(r, Returned([r EXCEPT !.pc =
                            IF SignalLoginWon(perform_login, perform_login')
                            THEN "cond_signal" ELSE "idle"]))
    /\ owed_signals' = IF perform_login' # perform_login THEN owed_signals + 1
                       ELSE owed_signals
    /\ wins_since_login' = IF perform_login' # perform_login THEN wins_since_login + 1
                           ELSE wins_since_login
    /\ UNCHANGED <<session, freed, login, logins, signals_since_login>>
    /\ LoginStep

\* as_node_signal_login, lines 516-518: wake the tend thread
as_node_signal_login_signal ==
    /\ \E r \in AuthLocals :
         /\ r.pc = "cond_signal"
         /\ AuthMove(r, IdleAuth)
    /\ owed_signals' = owed_signals - 1
    /\ signals_since_login' = signals_since_login + 1
    /\ UNCHANGED <<session, freed, login, logins, wins_since_login, perform_login>>
    /\ LoginStep

\* as_node_ensure_login, lines 569-584: login when one was requested or the
\* session has expired; else return AEROSPIKE_OK with *auth = false
as_node_ensure_login ==
    /\ login.pc = "idle"
    /\ logins < MaxLogins
    /\ \E expired \in (IF session.expiration > 0 THEN BOOLEAN ELSE {FALSE}) :
         login' = IF perform_login # 0 \/ expired
                  THEN [login EXCEPT !.pc = "as_cluster_login", !.status = "none"]
                  ELSE [login EXCEPT !.status = "ok_no_auth"]
    /\ UNCHANGED <<session, freed, auth_thr, logins, owed_signals, wins_since_login,
                   signals_since_login, perform_login>>
    /\ LoginStep

\* as_node_login, lines 522-533: as_cluster_login fails and the status is
\* returned, or it fills node_info with a new token
as_node_login ==
    /\ login.pc = "as_cluster_login"
    /\ \E ok \in BOOLEAN, e \in {0, 1} :
         login' = IF ok
                  THEN [login EXCEPT !.pc = "free", !.node_info = Token(logins + 1),
                                     !.expiration = e]
                  ELSE [login EXCEPT !.pc = "idle", !.status = "error"]
    /\ UNCHANGED <<session, freed, auth_thr, logins, owed_signals, wins_since_login,
                   signals_since_login, perform_login>>
    /\ LoginStep

\* line 535: cf_free(node->session_token)
as_node_login_free ==
    /\ login.pc = "free"
    /\ freed' = freed \cup {session.token}
    /\ login' = [login EXCEPT !.pc = "store_expiration"]
    /\ UNCHANGED <<session, auth_thr, logins, owed_signals, wins_since_login,
                   signals_since_login, perform_login>>
    /\ LoginStep

\* lines 536-538: three plain stores
as_node_login_store ==
    /\ \/ /\ login.pc = "store_expiration"
          /\ session' = [session EXCEPT !.expiration = login.expiration]
          /\ login' = [login EXCEPT !.pc = "store_token"]
       \/ /\ login.pc = "store_token"
          /\ session' = [session EXCEPT !.token = login.node_info.token]
          /\ login' = [login EXCEPT !.pc = "store_length"]
       \/ /\ login.pc = "store_length"
          /\ session' = [session EXCEPT !.length = login.node_info.length]
          /\ login' = [login EXCEPT !.pc = "store_perform_login"]
    /\ UNCHANGED <<freed, auth_thr, logins, owed_signals, wins_since_login,
                   signals_since_login, perform_login>>
    /\ LoginStep

\* line 539: as_store_uint8(&node->perform_login, 0); return AEROSPIKE_OK
as_node_login_done ==
    /\ login.pc = "store_perform_login"
    /\ perform_login' = 0
    /\ login' = [login EXCEPT !.pc = "idle", !.status = "ok_auth"]
    /\ logins' = logins + 1
    /\ wins_since_login' = 0
    /\ signals_since_login' = 0
    /\ UNCHANGED <<session, freed, auth_thr, owed_signals>>
    /\ LoginStep

InitLogin ==
    /\ NoLogin
    /\ QuietLoop
    /\ NoAttempts
    /\ NoPolicy
    /\ NoKeyCall
    /\ NoProto
    /\ NoConnect
    /\ NoHosts
    /\ NoRefresh
    /\ NoRacks
    /\ as_event_threads_created = FALSE
    /\ IdlePipe
    /\ tls_ctx = FALSE
    /\ user = TRUE
    /\ stream = <<>>
    /\ cmd = NoCommand
    /\ ev_pc = "reactor"
    /\ conn_pools_per_node = 1
    /\ total = [p \in Pools |-> 0]
    /\ queue = [p \in Pools |-> <<>>]
    /\ conn_iter = 0
    /\ perform_login = 0
    /\ thr = [r \in {IdleThread} |-> NumThreads]
    /\ sweep = IdleSweep

NextLogin ==
    \/ as_node_create_connection_load
    \/ as_authenticate
    \/ as_node_signal_login_cas
    \/ as_node_signal_login_signal
    \/ as_node_ensure_login
    \/ as_node_login
    \/ as_node_login_free
    \/ as_node_login_store
    \/ as_node_login_done

SpecLogin == InitLogin /\ [][NextLogin]_vars

(***************************************************************************)
(* Rack snapshots: as_node_parse_racks, as_node_replace_racks,              *)
(* as_node_has_rack, as_racks_release (as_node.c)                           *)
(***************************************************************************)

\* the terminating byte of a C string
NUL == "NUL"

\* line 1103: a namespace name has fewer bytes than this
AS_MAX_NAMESPACE_SIZE == 32

Digit(c) == c \in {"0", "1", "2", "3", "4", "5", "6", "7", "8", "9"}

DigitValue(c) ==
    CASE c = "0" -> 0 [] c = "1" -> 1 [] c = "2" -> 2 [] c = "3" -> 3 [] c = "4" -> 4
      [] c = "5" -> 5 [] c = "6" -> 6 [] c = "7" -> 7 [] c = "8" -> 8 [] c = "9" -> 9

\* the byte at p; a read beyond the buffer is a read of somebody else's memory
ByteAt(mem, p) == IF p \in 1..Len(mem) THEN mem[p] ELSE "outside"

\* strtol(p, NULL, 10) of the text from p on: the value of the digits it
\* starts with, 0 when it starts with none
RECURSIVE strtol_from(_, _, _)
strtol_from(mem, p, acc) ==
    IF Digit(ByteAt(mem, p)) THEN strtol_from(mem, p + 1, acc * 10 + DigitValue(mem[p]))
    ELSE acc

strtol(mem, p) == strtol_from(mem, p, 0)

\* p++ until *p is one of the stop bytes: the first position from p on that
\* holds one of them, or the first position behind the buffer
SkipTo(mem, p, stops) ==
    LET hits == {q \in p..(Len(mem) + 1) : ByteAt(mem, q) \in stops \cup {"outside"}}
    IN  CHOOSE q \in hits : \A r \in hits : q <= r

\* lines 1056-1076: count the colons and compare the rack ids behind them
RECURSIVE ScanRacks(_, _, _)
ScanRacks(mem, p, st) ==
    LET q == SkipTo(mem, p, {":", NUL})
    IN  IF ByteAt(mem, q) \in {NUL, "outside"} THEN st
        ELSE IF ~st.same THEN ScanRacks(mem, q + 1, [st EXCEPT !.size = @ + 1])
        ELSE IF st.size = 0
        THEN ScanRacks(mem, q + 1, [st EXCEPT !.size = 1, !.rack_id = strtol(mem, q + 1)])
        ELSE ScanRacks(mem, q + 1, [st EXCEPT !.size = @ + 1,
                                              !.same = (strtol(mem, q + 1) = st.rack_id)])

\* lines 1112-1119: the end of the rack id, at ';', at a newline or at the NUL
RackEnd(mem, p) == SkipTo(mem, p, {NUL, ";", "\n"})

\* an entry of the array that the second loop did not reach
Uninitialized == [ns |-> <<"?">>, rack_id |-> -1]

\* lines 1095-1130: one namespace and rack id per colon that begins an entry.
\* status is "ok", "error" (a namespace of 0 or of 32 and more bytes) or
\* "undefined" (the loop went on behind the buffer)
RECURSIVE FillRacks(_, _, _)
FillRacks(mem, ns, racks) ==
    LET p == SkipTo(mem, ns, {":", NUL})
    IN  IF ByteAt(mem, p) = "outside" THEN [status |-> "undefined", racks |-> racks]
        ELSE IF mem[p] = NUL THEN [status |-> "ok", racks |-> racks]
        ELSE IF p - ns <= 0 \/ p - ns >= AS_MAX_NAMESPACE_SIZE
        THEN [status |-> "error", racks |-> racks]
        ELSE LET end == RackEnd(mem, p + 1)
                 rack == [ns |-> SubSeq(mem, ns, p - 1), rack_id |-> strtol(mem, p + 1)]
             IN  IF ByteAt(mem, end) = "outside"
                 THEN [status |-> "undefined", racks |-> Append(racks, rack)]
                 ELSE FillRacks(mem, end + 1, Append(racks, rack))

\* the as_racks block of lines 1092-1094 once the second loop has run
PadRacks(racks, size) ==
    [i \in 1..size |-> IF i <= Len(racks) THEN racks[i] ELSE Uninitialized]

ParseRacks_NeverCompact(mem) ==
    LET st == ScanRacks(mem, 1, [size |-> 0, same |-> TRUE, rack_id |-> 0])
        filled == FillRacks(mem, 1, <<>>)
    IN  [status |-> filled.status,
         racks |-> [rack_id |-> 0, size |-> st.size, racks |-> PadRacks(filled.racks, st.size)]]

\* as_node_parse_racks, lines 1047-1137: the status and the block handed to
\* as_node_replace_racks (only when the status is "ok")
ParseRacks(mem) ==
    LET st == ScanRacks(mem, 1, [size |-> 0, same |-> TRUE, rack_id |-> 0])
        filled == FillRacks(mem, 1, <<>>)
    IN  IF st.same
        THEN [status |-> "ok", racks |-> [rack_id |-> st.rack_id, size |-> 0, racks |-> <<>>]]
        ELSE [status |-> filled.status,
              racks |-> [rack_id |-> 0, size |-> st.size,
                         racks |-> PadRacks(filled.racks, st.size)]]

\* the namespace names a rack-ids value is made of: two ordinary ones, an
\* empty one and one of AS_MAX_NAMESPACE_SIZE bytes
NsNames == {<<"a">>, <<"b">>, <<>>, [i \in 1..AS_MAX_NAMESPACE_SIZE |-> "n"]}

\* the rack ids as the server prints them
RackIdTexts == {<<"1">>, <<"1", "2">>, <<"0", "1">>}

RackIdEntries == [ns : NsNames, id : RackIdTexts]

\* the values of up to n namespaces
RackIds(n) ==
    UNION {[1..k -> RackIdEntries] : k \in 0..n}

\* <ns1>:<rack1>;<ns2>:<rack2>... (the format named at line 1050)
RECURSIVE FormatRacks(_)
FormatRacks(entries) ==
    IF entries = <<>> THEN <<>>
    ELSE Head(entries).ns \o <<":">> \o Head(entries).id \o
         (IF Len(entries) = 1 THEN <<>> ELSE <<";">> \o FormatRacks(Tail(entries)))

\* the value in the info response buffer: as_node_get_info, line 735, ends
\* the whole response with a NUL, and the newline that ends the value is a NUL
\* by the time as_node_process_racks gets the value
InfoValue(sent) ==
    FormatRacks(sent.entries) \o (IF sent.newline THEN <<NUL>> ELSE <<>>) \o <<NUL>>

\* one reader moves from locals r to locals r2
ReaderMove(r, r2) == rack_thr' = (rack_thr (-) SetToBag({r})) (+) SetToBag({r2})

Readers == BagToSet(rack_thr)

\* a reader or the tend thread has used memory that was freed or never written
RacksUndefined ==
    \/ rack_tend.pc = "undefined"
    \/ \E r \in Readers : r.pc = "undefined"

RackStep == ~RacksUndefined /\ UNCHANGED notRacks

\* cf_malloc, lines 1084 and 1092: a block whose ref_count nobody has written
NewRacks(racks) == racks @@ [ref_count |-> 0, initialized |-> FALSE, freed |-> FALSE]

\* as_node_parse_racks up to its call of as_node_replace_racks
as_node_parse_racks ==
    /\ rack_tend.pc = "parse"
    /\ LET r == ParseRacks(rack_buf)
       IN  IF r.status = "ok"
           THEN /\ rack_heap' = Append(rack_heap, NewRacks(r.racks))
                /\ rack_tend' = [rack_tend EXCEPT !.pc = "init", !.racks = Len(rack_heap) + 1]
           ELSE /\ rack_tend' = [rack_tend EXCEPT
                       !.pc = IF r.status = "error" THEN "idle" ELSE "undefined",
                       !.status = r.status]
                /\ UNCHANGED rack_heap
    /\ UNCHANGED <<rack_sent, rack_buf, node_racks, cluster_gc, rack_thr>>
    /\ RackStep

\* as_node_replace_racks, lines 1026-1027
as_node_replace_racks_init ==
    /\ rack_tend.pc = "init"
    /\ rack_heap' = [rack_heap EXCEPT ![rack_tend.racks].ref_count = 1,
                                      ![rack_tend.racks].initialized = TRUE]
    /\ rack_tend' = [rack_tend EXCEPT !.pc = "store"]
    /\ UNCHANGED <<rack_sent, rack_buf, node_racks, cluster_gc, rack_thr>>
    /\ RackStep

\* as_node_replace_racks, lines 1033-1036
as_node_replace_racks_store ==
    /\ rack_tend.pc = "store"
    /\ node_racks' = rack_tend.racks
    /\ rack_tend' = [rack_tend EXCEPT !.pc = "gc", !.old = node_racks]
    /\ UNCHANGED <<rack_sent, rack_buf, rack_heap, cluster_gc, rack_thr>>
    /\ RackStep

RetireRacks_Free(heap, gc, old) ==
    [heap |-> [heap EXCEPT ![old].freed = TRUE], gc |-> gc]

\* as_node_replace_racks, lines 1038-1044: the previous block goes to the
\* garbage list
RetireRacks(heap, gc, old) ==
    [heap |-> heap, gc |-> Append(gc, old)]

as_node_replace_racks_gc ==
    /\ rack_tend.pc = "gc"
    /\ IF rack_tend.old # 0
       THEN LET r == RetireRacks(rack_heap, cluster_gc, rack_tend.old)
            IN  rack_heap' = r.heap /\ cluster_gc' = r.gc
       ELSE UNCHANGED <<rack_heap, cluster_gc>>
    /\ rack_tend' = [rack_tend EXCEPT !.pc = "idle", !.status = "ok", !.old = 0]
    /\ UNCHANGED <<rack_sent, rack_buf, node_racks, rack_thr>>
    /\ RackStep

\* as_racks_release, lines 53-60, on block id
RacksRelease(heap, id) ==
    [heap EXCEPT ![id].ref_count = @ - 1, ![id].freed = (heap[id].ref_count - 1 = 0)]

\* as_node_has_rack, lines 589-593
as_node_has_rack_load ==
    \E r \in Readers : \E rack_id \in {1, 12} :
        /\ r.pc = "idle"
        /\ node_racks # 0
        /\ ReaderMove(r, [r EXCEPT !.pc = "reserve", !.racks = node_racks,
                                   !.rack_id = rack_id])
        /\ UNCHANGED <<rack_sent, rack_buf, rack_tend, node_racks, rack_heap, cluster_gc>>
        /\ RackStep

\* as_node_has_rack, line 596
as_node_has_rack_reserve ==
    \E r \in Readers :
        /\ r.pc = "reserve"
        /\ IF rack_heap[r.racks].freed
           THEN /\ ReaderMove(r, [r EXCEPT !.pc = "undefined"])
                /\ UNCHANGED rack_heap
           ELSE /\ ReaderMove(r, [r EXCEPT !.pc = "compare"])
                /\ rack_heap' = [rack_heap EXCEPT ![r.racks].ref_count = @ + 1]
        /\ UNCHANGED <<rack_sent, rack_buf, rack_tend, node_racks, cluster_gc>>
        /\ RackStep

\* lines 599-614 for namespace ns: the rack id of the compact form, or the
\* entry of that namespace
HasRack(racks, ns, rack_id) ==
    IF racks.size = 0 THEN racks.rack_id = rack_id
    ELSE LET hits == {i \in 1..racks.size : racks.racks[i].ns = ns}
         IN  hits # {} /\ racks.racks[CHOOSE i \in hits : \A j \in hits : i <= j].rack_id = rack_id

\* as_node_has_rack, lines 599-614
as_node_has_rack_compare ==
    \E r \in Readers :
        /\ r.pc = "compare"
        /\ IF rack_heap[r.racks].freed \/ ~rack_heap[r.racks].initialized
           THEN ReaderMove(r, [r EXCEPT !.pc = "undefined"])
           ELSE ReaderMove(r, [r EXCEPT !.pc = "release",
                                        !.result = HasRack(rack_heap[r.racks], <<"a">>, r.rack_id)])
        /\ UNCHANGED <<rack_sent, rack_buf, rack_tend, node_racks, rack_heap, cluster_gc>>
        /\ RackStep

\* as_node_has_rack, lines 601, 611, 616: the reservation is given back
as_node_has_rack_release ==
    \E r \in Readers :
        /\ r.pc = "release"
        /\ rack_heap' = RacksRelease(rack_heap, r.racks)
        /\ ReaderMove(r, IdleReader)
        /\ UNCHANGED <<rack_sent, rack_buf, rack_tend, node_racks, cluster_gc>>
        /\ RackStep

\* every block on the garbage list is released once
RECURSIVE ReleaseAll(_, _)
ReleaseAll(heap, gc) ==
    IF gc = <<>> THEN heap ELSE ReleaseAll(RacksRelease(heap, Head(gc)), Tail(gc))

\* the garbage list is run after a tend cycle in which no reader can still be
\* using a block on it
as_cluster_gc ==
    /\ rack_tend.pc = "idle"
    /\ cluster_gc # <<>>
    /\ \A r \in Readers : r.pc = "idle" \/ \A i \in DOMAIN cluster_gc : cluster_gc[i] # r.racks
    /\ rack_heap' = ReleaseAll(rack_heap, cluster_gc)
    /\ cluster_gc' = <<>>
    /\ UNCHANGED <<rack_sent, rack_buf, rack_tend, node_racks, rack_thr>>
    /\ RackStep

\* the rack-ids values of a cluster whose racks change while it is read
SwapRackIds ==
    {[entries |-> <<[ns |-> <<"a">>, id |-> <<"1">>]>>, newline |-> TRUE],
     [entries |-> <<[ns |-> <<"a">>, id |-> <<"1">>], [ns |-> <<"b">>, id |-> <<"1", "2">>]>>,
      newline |-> TRUE]}

\* as_node_process_racks, lines 1148-1149: a rack-ids value arrives
as_node_process_racks ==
    /\ rack_tend.pc = "idle"
    /\ Len(rack_heap) < MaxSwaps
    /\ \E sent \in SwapRackIds :
        /\ rack_sent' = sent
        /\ rack_buf' = InfoValue(sent)
    /\ rack_tend' = [IdleTend EXCEPT !.pc = "parse"]
    /\ UNCHANGED <<node_racks, rack_heap, cluster_gc, rack_thr>>
    /\ RackStep

\* a node whose pools, commands, event loop and login are at rest
IdleNode ==
    /\ NoLogin
    /\  IdleLoop
    /\ IdlePipe
    /\ tls_ctx = FALSE
    /\ user = FALSE
    /\ stream = <<>>
    /\ cmd = NoCommand
    /\ ev_pc = "reactor"
    /\ conn_pools_per_node = 1
    /\ total = [p \in Pools |-> 0]
    /\ queue = [p \in Pools |-> <<>>]
    /\ conn_iter = 0
    /\ perform_login = 0
    /\ thr = [r \in {IdleThread} |-> NumThreads]
    /\ sweep = IdleSweep

\* as_node_parse_racks is called with one rack-ids value
InitRacks ==
    /\ IdleNode
    /\ NoAttempts
    /\ NoPolicy
    /\ NoKeyCall
    /\ NoProto
    /\ NoConnect
    /\ NoRefresh
    /\ NoHosts
    /\ rack_sent \in [entries : RackIds(MaxRacks), newline : BOOLEAN]
    /\ rack_buf = InfoValue(rack_sent)
    /\ rack_tend = [IdleTend EXCEPT !.pc = "parse"]
    /\ node_racks = 0
    /\ rack_heap = <<>>
    /\ cluster_gc = <<>>
    /\ rack_thr = [r \in {IdleReader} |-> NumThreads]

NextRacks ==
    \/ as_node_parse_racks
    \/ as_node_replace_racks_init
    \/ as_node_replace_racks_store
    \/ as_node_replace_racks_gc

SpecRacks == InitRacks /\ [][NextRacks]_vars

InitSwap ==
    /\ IdleNode
    /\ NoAttempts
    /\ NoPolicy
    /\ NoKeyCall
    /\ NoProto
    /\ NoConnect
    /\ NoRefresh
    /\ NoHosts
    /\ NoRacks

NextSwap ==
    \/ as_node_process_racks
    \/ as_node_parse_racks
    \/ as_node_replace_racks_init
    \/ as_node_replace_racks_store
    \/ as_node_replace_racks_gc
    \/ as_node_has_rack_load
    \/ as_node_has_rack_reserve
    \/ as_node_has_rack_compare
    \/ as_node_has_rack_release
    \/ as_cluster_gc

SpecSwap == InitSwap /\ [][NextSwap]_vars

(***************************************************************************)
(* The tend thread's info requests: as_node_refresh, as_node_refresh_peers, *)
(* as_node_refresh_partitions, as_node_refresh_racks (as_node.c)            *)
(***************************************************************************)

\* node->name, and the name of another server
node_name == "BB9020011AC4202"

other_name == "BB9030011AC4202"

\* the generations a server reports
Generations == {1}

\* an info response of up to n name/value pairs made of the given pairs
Responses(pairs, n) == UNION {[1..k -> pairs] : k \in 0..n}

\* a name none of the four requests asks for
NotRequested == [name |-> "statistics", value |-> "x"]

\* the pairs a server can answer as_node_refresh with
RefreshPairs ==
    [name : {"node"}, value : {node_name, other_name, ""}]
        \cup [name : {"partition-generation"}, value : Generations]
        \cup [name : {"peers-generation"}, value : Generations \cup {-1}]
        \cup {[name |-> "rebalance-generation", value |-> 1], NotRequested}

\* as_peers_parse_peers accepts the value "ok" and fails on any other
PeersPairs ==
    [name : {"peers-clear-std"}, value : {"ok", "bad"}] \cup {NotRequested}

PartitionsPairs ==
    [name : {"partition-generation"}, value : Generations]
        \cup {[name |-> "replicas", value |-> "x"], NotRequested}

\* a rack-ids value in the protocol's format
GoodRackIds ==
    [entries |-> <<[ns |-> <<"a">>, id |-> <<"1">>], [ns |-> <<"b">>, id |-> <<"1", "2">>]>>,
     newline |-> TRUE]

\* a rack-ids value with differing ids and an empty namespace name
BadRackIds ==
    [entries |-> <<[ns |-> <<>>, id |-> <<"1">>], [ns |-> <<"b">>, id |-> <<"1", "2">>]>>,
     newline |-> TRUE]

RacksPairs ==
    [name : {"rebalance-generation"}, value : Generations]
        \cup [name : {"rack-ids"}, value : {GoodRackIds, BadRackIds}]
        \cup {NotRequested}

\* what a processing loop has done to the node so far, and to the as_peers
\* of this tend, whose gen_changed the caller hands in cleared
Processing ==
    [status |-> "AEROSPIKE_OK", active |-> active,
     peers_generation |-> peers_generation,
     partition_generation |-> partition_generation,
     rebalance_generation |-> rebalance_generation,
     changed |-> changed, gen_changed |-> FALSE, racks |-> <<>>]

as_node_verify_name_KeepActive(st, name) ==
    IF name = "" \/ name # node_name THEN [st EXCEPT !.status = "AEROSPIKE_ERR_CLIENT"]
    ELSE st

\* as_node_verify_name, lines 739-753
as_node_verify_name(st, name) ==
    IF name = "" THEN [st EXCEPT !.status = "AEROSPIKE_ERR_CLIENT"]
    ELSE IF name # node_name
    THEN [st EXCEPT !.active = FALSE, !.status = "AEROSPIKE_ERR_CLIENT"]
    ELSE st

\* a response loop that stores the partition generation it compares
RECURSIVE as_node_process_response_Store(_, _)
as_node_process_response_Store(values, st) ==
    IF values = <<>> THEN st
    ELSE LET nv == Head(values)
             next == CASE nv.name = "node" -> as_node_verify_name(st, nv.value)
                       [] nv.name = "partition-generation" ->
                              IF st.partition_generation # nv.value
                              THEN [st EXCEPT !.changed.partition = TRUE,
                                              !.partition_generation = nv.value]
                              ELSE st
                       [] nv.name = "peers-generation" ->
                              IF st.peers_generation # nv.value
                              THEN [st EXCEPT !.gen_changed = TRUE] ELSE st
                       [] nv.name = "rebalance-generation" ->
                              IF st.rebalance_generation # nv.value
                              THEN [st EXCEPT !.changed.rebalance = TRUE] ELSE st
                       [] nv.name \in {"services", "services-alternate"} -> st
                       [] OTHER -> [st EXCEPT !.status = "AEROSPIKE_ERR_CLIENT"]
         IN  IF next.status # "AEROSPIKE_OK" THEN next
             ELSE as_node_process_response_Store(Tail(values), next)

\* as_node_process_response, lines 760-800; services writes to the caller's
\* as_peers only
RECURSIVE as_node_process_response(_, _)
as_node_process_response(values, st) ==
    IF values = <<>> THEN st
    ELSE LET nv == Head(values)
             next == CASE nv.name = "node" -> as_node_verify_name(st, nv.value)
                       [] nv.name = "peers-generation" ->
                              IF st.peers_generation # nv.value
                              THEN [st EXCEPT !.gen_changed = TRUE] ELSE st
                       [] nv.name = "partition-generation" ->
                              IF st.partition_generation # nv.value
                              THEN [st EXCEPT !.changed.partition = TRUE] ELSE st
                       [] nv.name = "rebalance-generation" ->
                              IF st.rebalance_generation # nv.value
                              THEN [st EXCEPT !.changed.rebalance = TRUE] ELSE st
                       [] nv.name \in {"services", "services-alternate"} -> st
                       [] OTHER -> [st EXCEPT !.status = "AEROSPIKE_ERR_CLIENT"]
         IN  IF next.status # "AEROSPIKE_OK" THEN next
             ELSE as_node_process_response(Tail(values), next)

\* as_node_process_peers, lines 876-898
RECURSIVE as_node_process_peers(_, _)
as_node_process_peers(values, st) ==
    IF values = <<>> THEN st
    ELSE LET nv == Head(values)
             next == CASE nv.name \in {"peers-tls-alt", "peers-tls-std",
                                       "peers-clear-alt", "peers-clear-std"} ->
                              IF nv.value = "ok" THEN st
                              ELSE [st EXCEPT !.status = "AEROSPIKE_ERR"]
                       [] OTHER -> [st EXCEPT !.status = "AEROSPIKE_ERR_CLIENT"]
         IN  IF next.status # "AEROSPIKE_OK" THEN next
             ELSE as_node_process_peers(Tail(values), next)

\* as_node_process_partitions, lines 953-972
RECURSIVE as_node_process_partitions(_, _)
as_node_process_partitions(values, st) ==
    IF values = <<>> THEN st
    ELSE LET nv == Head(values)
             next == CASE nv.name = "partition-generation" ->
                              [st EXCEPT !.partition_generation = nv.value]
                       [] nv.name \in {"replicas", "replicas-all"} -> st
                       [] OTHER -> [st EXCEPT !.status = "AEROSPIKE_ERR_CLIENT"]
         IN  IF next.status # "AEROSPIKE_OK" THEN next
             ELSE as_node_process_partitions(Tail(values), next)

\* as_node_process_racks, lines 1139-1156: the rack-ids pair ends the loop
\* with what as_node_parse_racks returns
RECURSIVE process_racks(_, _)
process_racks(values, st) ==
    IF values = <<>> THEN st
    ELSE LET nv == Head(values)
         IN  CASE nv.name = "rebalance-generation" ->
                      process_racks(Tail(values), [st EXCEPT !.rebalance_generation = nv.value])
               [] nv.name = "rack-ids" ->
                      LET r == ParseRacks(InfoValue(nv.value))
                      IN  IF r.status = "ok" THEN [st EXCEPT !.racks = <<r.racks>>]
                          ELSE [st EXCEPT !.status = "AEROSPIKE_ERR_CLIENT"]
               [] OTHER -> [st EXCEPT !.status = "AEROSPIKE_ERR_CLIENT"]

\* as_socket_close on node->info_socket
ClosedSocket == [fd |-> -1]

\* the first pair of a response that a processing loop cannot get past:
\* a node name that differs, an empty node name, or a name not requested
RECURSIVE FirstBad(_)
FirstBad(values) ==
    IF values = <<>> THEN "none"
    ELSE IF Head(values).name = NotRequested.name THEN "unrequested"
    ELSE IF Head(values).name = "node" /\ Head(values).value = "" THEN "empty"
    ELSE IF Head(values).name = "node" /\ Head(values).value # node_name THEN "renamed"
    ELSE FirstBad(Tail(values))

\* the generations of a response that stand before its first pair with a
\* node name other than node->name or with a name none of the requests asks for
Reported(values) ==
    {values[i] : i \in {j \in DOMAIN values :
        /\ values[j].name \in {"peers-generation", "partition-generation",
                               "rebalance-generation"}
        /\ \A k \in 1..(j - 1) :
              /\ values[k].name # NotRequested.name
              /\ values[k].name = "node" => values[k].value = node_name}}

\* the record of a call that got the response values
Call(fn, values, status) ==
    [fn |-> fn, status |-> status, first_bad |-> FirstBad(values),
     renamed |-> \E i \in DOMAIN values :
                     /\ values[i].name = "node"
                     /\ values[i].value \notin {"", node_name},
     unrequested |-> \E i \in DOMAIN values : values[i].name = NotRequested.name,
     gen_changed |-> FALSE, reported |-> {}]

\* the record of a call that got no response
Failed(fn, status) == [NoCall EXCEPT !.fn = fn, !.status = status]

\* the node fields a processing loop leaves behind
Processed(st) ==
    /\ active' = st.active
    /\ peers_generation' = st.peers_generation
    /\ partition_generation' = st.partition_generation
    /\ rebalance_generation' = st.rebalance_generation
    /\ changed' = st.changed

RefreshStep == UNCHANGED <<poolVars, evVars, pipeVars, wakeVars, loginVars, hostVars, connVars, protoVars, keyVars, policyVars, hintVars>>

\* as_node_refresh, lines 805-869, with as_node_get_tend_connection,
\* lines 620-678, for a cluster without a user
as_node_refresh ==
    /\ \E connected \in BOOLEAN :
        IF info_socket.fd < 0 /\ ~connected
        THEN /\ refresh' = Failed("as_node_refresh", "AEROSPIKE_ERR_CONNECTION")
             /\ UNCHANGED <<active, info_socket, peers_generation, partition_generation,
                            rebalance_generation, changed>>
        ELSE \E answered \in BOOLEAN :
            IF ~answered
            THEN /\ refresh' = Failed("as_node_refresh", "AEROSPIKE_ERR_CONNECTION")
                 /\ info_socket' = ClosedSocket
                 /\ UNCHANGED <<active, peers_generation, partition_generation, rebalance_generation,
                                changed>>
            ELSE \E values \in Responses(RefreshPairs, MaxValues) :
                    LET st == as_node_process_response(values, Processing)
                    IN  /\ Processed(st)
                        /\ info_socket' = IF st.status = "AEROSPIKE_ERR_CLIENT"
                                          THEN ClosedSocket ELSE [fd |-> 1]
                        /\ refresh' = [Call("as_node_refresh", values, st.status) EXCEPT
                                           !.gen_changed = st.gen_changed,
                                           !.reported = Reported(values)]
    /\ UNCHANGED rackVars
    /\ RefreshStep

\* as_node_refresh_peers, lines 900-948
as_node_refresh_peers ==
    /\ \E answered \in BOOLEAN :
        IF info_socket.fd < 0 \/ ~answered
        THEN /\ refresh' = Failed("as_node_refresh_peers", "AEROSPIKE_ERR_CONNECTION")
             /\ info_socket' = ClosedSocket
             /\ UNCHANGED <<active, peers_generation, partition_generation, rebalance_generation, changed>>
        ELSE \E values \in Responses(PeersPairs, MaxValues) :
                LET st == as_node_process_peers(values, Processing)
                IN  /\ Processed(st)
                    /\ refresh' = Call("as_node_refresh_peers", values, st.status)
                    /\ UNCHANGED info_socket
    /\ UNCHANGED rackVars
    /\ RefreshStep

\* as_node_refresh_partitions, lines 974-1010
as_node_refresh_partitions ==
    /\ \E answered \in BOOLEAN :
        IF info_socket.fd < 0 \/ ~answered
        THEN /\ refresh' = Failed("as_node_refresh_partitions", "AEROSPIKE_ERR_CONNECTION")
             /\ info_socket' = ClosedSocket
             /\ UNCHANGED <<active, peers_generation, partition_generation, rebalance_generation, changed>>
        ELSE \E values \in Responses(PartitionsPairs, MaxValues) :
                LET st == as_node_process_partitions(values, Processing)
                IN  /\ Processed(st)
                    /\ refresh' = Call("as_node_refresh_partitions", values, st.status)
                    /\ UNCHANGED info_socket
    /\ UNCHANGED rackVars
    /\ RefreshStep

\* as_node_refresh_racks, lines 1160-1185, with as_node_replace_racks when the
\* response has a rack-ids value that parses
as_node_refresh_racks ==
    /\ Len(rack_heap) < MaxSwaps
    /\ \E answered \in BOOLEAN :
        IF info_socket.fd < 0 \/ ~answered
        THEN /\ refresh' = Failed("as_node_refresh_racks", "AEROSPIKE_ERR_CONNECTION")
             /\ info_socket' = ClosedSocket
             /\ UNCHANGED <<active, peers_generation, partition_generation, rebalance_generation, changed>>
             /\ UNCHANGED rackVars
        ELSE \E values \in Responses(RacksPairs, MaxValues) :
                LET st == process_racks(values, Processing)
                IN  /\ Processed(st)
                    /\ refresh' = Call("as_node_refresh_racks", values, st.status)
                    /\ UNCHANGED info_socket
                    /\ IF st.racks = <<>> THEN UNCHANGED <<rack_heap, node_racks, cluster_gc>>
                       ELSE LET new == [NewRacks(st.racks[1]) EXCEPT
                                            !.ref_count = 1, !.initialized = TRUE]
                                r == RetireRacks(Append(rack_heap, new), cluster_gc, node_racks)
                            IN  /\ node_racks' = Len(rack_heap) + 1
                                /\ rack_heap' = IF node_racks # 0 THEN r.heap
                                                ELSE Append(rack_heap, new)
                                /\ cluster_gc' = IF node_racks # 0 THEN r.gc ELSE cluster_gc
                    /\ UNCHANGED <<rack_sent, rack_buf, rack_tend, rack_thr>>
    /\ RefreshStep

InitRefresh ==
    /\ IdleNode
    /\ NoAttempts
    /\ NoPolicy
    /\ NoKeyCall
    /\ NoProto
    /\ NoConnect
    /\ NoRacks
    /\ NoRefresh
    /\ NoHosts

NextRefresh ==
    \/ as_node_refresh
    \/ as_node_refresh_peers
    \/ as_node_refresh_partitions
    \/ as_node_refresh_racks

SpecRefresh == InitRefresh /\ [][NextRefresh]_vars

(***************************************************************************)
(* as_node_add_address and as_node_add_alias (as_node.c)                    *)
(***************************************************************************)

\* the addresses a node is reached at
Addresses ==
    [family : {"AF_INET"}, name : {"10.0.0.1", "10.0.0.2"}]
        \cup [family : {"AF_INET6"}, name : {"fe80::1", "fe80::2"}]

HostStep == UNCHANGED notHosts

Address4Fits_Inclusive(size) == size <= AS_ADDRESS4_MAX

\* line 204
Address4Fits(size) == size < AS_ADDRESS4_MAX

\* as_node_add_address, lines 193-223, for the address a
AddAddress(a) ==
    IF a.family = "AF_INET"
    THEN IF Address4Fits(address4_size)
         THEN /\ addresses' = [addresses EXCEPT ![address4_size] = a]
              /\ address4_size' = address4_size + 1
              /\ address6_size' = address6_size
              /\ address_call' = [family |-> a.family, name |-> a.name, stored |-> TRUE]
         ELSE /\ address_call' = [family |-> a.family, name |-> a.name, stored |-> FALSE]
              /\ UNCHANGED <<addresses, address4_size, address6_size>>
    ELSE LET offset == AS_ADDRESS4_MAX + address6_size
         IN  IF offset < AS_ADDRESS6_MAX
             THEN /\ addresses' = [addresses EXCEPT ![offset] = a]
                  /\ address6_size' = address6_size + 1
                  /\ address4_size' = address4_size
                  /\ address_call' = [family |-> a.family, name |-> a.name, stored |-> TRUE]
             ELSE /\ address_call' = [family |-> a.family, name |-> a.name, stored |-> FALSE]
                  /\ UNCHANGED <<addresses, address4_size, address6_size>>

as_node_add_address ==
    /\ \E a \in Addresses : AddAddress(a)
    /\ UNCHANGED <<aliases, alias_call>>
    /\ HostStep

\* a node whose hint starts at slot 0 whatever its address
FirstIndex_Zero(family) == 0

\* as_node_create, line 100: the hint is the first slot of the family of
\* the address the node was discovered at
FirstIndex(family) == IF family = "AF_INET" THEN 0 ELSE AS_ADDRESS4_MAX

\* as_node_create, lines 100-104: the node starts with the address it was
\* discovered at
InitAddress ==
    /\ IdleNode
    /\ NoAttempts
    /\ NoPolicy
    /\ NoKeyCall
    /\ NoProto
    /\ connect = NoAttempt
    /\ NoRacks
    /\ NoRefresh
    /\ aliases = <<>>
    /\ alias_call = NoAliasCall
    /\ \E a \in Addresses :
        /\ addresses = [i \in 0..(AS_ADDRESS6_MAX - 1) |->
                           IF i = (IF a.family = "AF_INET" THEN 0 ELSE AS_ADDRESS4_MAX)
                           THEN a ELSE FreeSlot]
        /\ address4_size = (IF a.family = "AF_INET" THEN 1 ELSE 0)
        /\ address6_size = (IF a.family = "AF_INET" THEN 0 ELSE 1)
        /\ address_call = [family |-> a.family, name |-> a.name, stored |-> TRUE]
        /\ address_index = FirstIndex(a.family)

NextAddress ==
    \/ as_node_add_address

SpecAddress == InitAddress /\ [][NextAddress]_vars

\* a hostname: its first sizeof(alias.name) - 1 bytes, and the bytes after
\* them (none when the hostname fits the name field of an alias)
Hostnames ==
    [head : {"a.example", "b.example"}, tail : {""}]
        \cup [head : {"long.example"}, tail : {"x", "y"}]

Ports == {3000, 4000}

\* as_strncpy(a.name, hostname, sizeof(a.name)): the bytes that fit
as_strncpy(hostname) == [hostname EXCEPT !.tail = ""]

\* as_node_add_alias, lines 225-255
as_node_add_alias ==
    /\ \E hostname \in Hostnames : \E port \in Ports :
        /\ alias_call' = [hostname |-> hostname, port |-> port, before |-> aliases,
                          again |-> /\ alias_call.hostname = hostname
                                    /\ alias_call.port = port]
        /\ IF \E i \in DOMAIN aliases : aliases[i].name = hostname /\ aliases[i].port = port
           THEN UNCHANGED aliases
           ELSE IF Len(aliases) < aliases_capacity
           THEN aliases' = Append(aliases, [name |-> as_strncpy(hostname), port |-> port])
           ELSE UNCHANGED aliases
    /\ UNCHANGED <<addresses, address4_size, address6_size, address_call>>
    /\ HostStep

InitAlias ==
    /\ IdleNode
    /\ NoAttempts
    /\ NoPolicy
    /\ NoKeyCall
    /\ NoProto
    /\ NoConnect
    /\ NoRacks
    /\ NoRefresh
    /\ NoHosts

NextAlias ==
    \/ as_node_add_alias

SpecAlias == InitAlias /\ [][NextAlias]_vars


(***************************************************************************)
(* Connecting to a node: as_node_create_socket (as_node.c) and              *)
(* as_event_connect (cl_write.h)                                            *)
(***************************************************************************)

\* the family of the address in slot i (primary->addr.ss_family)
FamilyOf(i) == addresses[i].family

\* as_node_try_connections, lines 257-267, and as_ev_try_connections,
\* lines 1575-1585: the slots tried from i on and the slot that connected
RECURSIVE try_connections(_, _, _, _)
try_connections(connectable, i, max, tried) ==
    IF i >= max THEN [rv |-> -1, attempts |-> tried]
    ELSE IF i \in connectable THEN [rv |-> i, attempts |-> Append(tried, i)]
    ELSE try_connections(connectable, i + 1, max, Append(tried, i))

try_family_connections_NoWrap(connectable, begin, end, index) ==
    IF index >= 0
    THEN IF index \in connectable THEN [rv |-> index, attempts |-> <<index>>]
         ELSE try_connections(connectable, index + 1, end, <<index>>)
    ELSE try_connections(connectable, begin, end, <<>>)

\* as_node_try_family_connections, lines 282-305, and
\* as_ev_try_family_connections, lines 1610-1633, once the socket exists
try_family_connections(connectable, begin, end, index) ==
    IF index >= 0
    THEN IF index \in connectable THEN [rv |-> index, attempts |-> <<index>>]
         ELSE LET up == try_connections(connectable, index + 1, end, <<index>>)
              IN  IF up.rv < 0 THEN try_connections(connectable, begin, index, up.attempts)
                  ELSE up
    ELSE try_connections(connectable, begin, end, <<>>)

\* as_node_try_family_connections, lines 269-307, and
\* as_ev_try_family_connections, lines 1587-1634: nothing is tried when the
\* socket of the family cannot be created
TryFamily_NoClose(family, sockets, connectable, begin, end, index) ==
    IF family \notin sockets THEN [rv |-> -1, attempts |-> <<>>, created |-> 0, closed |-> 0]
    ELSE try_family_connections(connectable, begin, end, index)
             @@ [created |-> 1, closed |-> 0]

TryFamily(family, sockets, connectable, begin, end, index) ==
    IF family \notin sockets THEN [rv |-> -1, attempts |-> <<>>, created |-> 0, closed |-> 0]
    ELSE LET t == try_family_connections(connectable, begin, end, index)
         IN  t @@ [created |-> 1, closed |-> IF t.rv < 0 THEN 1 ELSE 0]

\* lines 316-333 and 1660-1679: the family of the hint, then the other one
TryFrom(index, sockets, connectable) ==
    LET v4(i) == TryFamily("AF_INET", sockets, connectable, 0, address4_size, i)
        v6(i) == TryFamily("AF_INET6", sockets, connectable, AS_ADDRESS4_MAX,
                           AS_ADDRESS4_MAX + address6_size, i)
        first == IF FamilyOf(index) = "AF_INET" THEN v4(index) ELSE v6(index)
        second == IF FamilyOf(index) = "AF_INET" THEN v6(-1) ELSE v4(-1)
    IN  IF first.rv >= 0 THEN first
        ELSE [rv |-> second.rv, attempts |-> first.attempts \o second.attempts,
              created |-> first.created + second.created,
              closed |-> first.closed + second.closed]

\* lines 313 and 1665: the hint is node->address_index
TryAddresses(sockets, connectable) == TryFrom(address_index, sockets, connectable)

\* the slots of node->addresses that hold an address
Stored ==
    0..(address4_size - 1) \cup AS_ADDRESS4_MAX..(AS_ADDRESS4_MAX + address6_size - 1)

\* lines 335-351 and 1681-1694: the hint is stored when another slot connected
Connected(fn, sockets, connectable, rest(_)) ==
    LET r == TryAddresses(sockets, connectable)
    IN  /\ connect' = [fn |-> fn, hint |-> address_index, connectable |-> connectable,
                       sockets |-> sockets, attempts |-> r.attempts, rv |-> r.rv]
                      @@ rest(r) @@ NoAttempt
        /\ address_index' = IF r.rv >= 0 /\ r.rv # address_index THEN r.rv
                            ELSE address_index

\* as_node_create_socket, lines 335-347: no address connected and the caller
\* passed a pool: as_conn_pool_decr(pool); else sock->pool = pool
SocketOutcome(r, pool) ==
    [created |-> r.created, closed |-> r.closed, pool |-> pool,
     status |-> IF r.rv < 0 THEN "AEROSPIKE_ERR_CONNECTION" ELSE "AEROSPIKE_OK",
     decr |-> IF r.rv < 0 /\ pool THEN 1 ELSE 0]

\* as_node_create_connection, lines 355-381: the socket, then as_authenticate
\* when the cluster has a user; a refusal signals a login, closes the socket
\* and releases the pool's reservation
ConnectionOutcome(r, pool, has_user, auth_status) ==
    LET so == SocketOutcome(r, pool)
    IN  IF so.status # "AEROSPIKE_OK" \/ ~has_user \/ auth_status = "AEROSPIKE_OK"
        THEN so
        ELSE [so EXCEPT !.status = auth_status, !.closed = @ + 1,
                        !.decr = IF pool THEN @ + 1 ELSE @]
             @@ [signal_login |-> TRUE]

\* as_event_connect, lines 1681-1706, and as_ev_connect_error, 1638-1657:
\* no address connected: the connection object is freed, the loop's count
\* of connections lowered, and the command retried or failed; else the
\* pool counts one more opened connection
EventOutcome(r, retry) ==
    IF r.rv < 0
    THEN [created |-> r.created, closed |-> r.closed, pool |-> TRUE,
          status |-> "AEROSPIKE_ERR_ASYNC_CONNECTION", conn_freed |-> TRUE, decr |-> 1,
          retried |-> retry, callbacks |-> IF retry THEN 0 ELSE 1]
    ELSE [created |-> r.created, closed |-> r.closed, pool |-> TRUE,
          status |-> "AEROSPIKE_OK", opened |-> 1]

ConnectStep == UNCHANGED notConnect

\* as_node_create_socket, lines 309-352, called without a pool
as_node_create_socket ==
    /\ connect.fn = "none"
    /\ \E sockets \in SUBSET {"AF_INET", "AF_INET6"} : \E connectable \in SUBSET Stored :
           LET rest(r) == SocketOutcome(r, FALSE)
           IN  Connected("as_node_create_socket", sockets, connectable, rest)
    /\ ConnectStep

\* as_node_create_connection, lines 355-381, for a reservation of a sub-pool
\* or (pool = NULL) for the tend thread
as_node_create_connection ==
    /\ connect.fn = "none"
    /\ \E sockets \in SUBSET {"AF_INET", "AF_INET6"} : \E connectable \in SUBSET Stored :
       \E pool, has_user \in BOOLEAN :
       \E auth_status \in {"AEROSPIKE_OK", "AEROSPIKE_NOT_AUTHENTICATED"} :
           LET rest(r) == ConnectionOutcome(r, pool, has_user, auth_status)
           IN  Connected("as_node_create_connection", sockets, connectable, rest)
    /\ ConnectStep

\* as_event_connect, lines 1650-1699, up to as_ev_watcher_init or
\* as_ev_connect_error
as_event_connect_addresses ==
    /\ connect.fn = "none"
    /\ \E sockets \in SUBSET {"AF_INET", "AF_INET6"} : \E connectable \in SUBSET Stored :
       \E retry \in BOOLEAN :
           LET rest(r) == EventOutcome(r, retry)
           IN  Connected("as_event_connect", sockets, connectable, rest)
    /\ ConnectStep

\* a node with its addresses stored and any of them as the hint
InitConnect ==
    /\ IdleNode
    /\ NoAttempts
    /\ NoPolicy
    /\ NoKeyCall
    /\ NoProto
    /\ NoRacks
    /\ NoRefresh
    /\ aliases = <<>>
    /\ alias_call = NoAliasCall
    /\ address_call = NoAddressCall
    /\ address4_size \in 0..AS_ADDRESS4_MAX
    /\ address6_size \in 0..(AS_ADDRESS6_MAX - AS_ADDRESS4_MAX)
    /\ address4_size + address6_size > 0
    /\ addresses = [i \in 0..(AS_ADDRESS6_MAX - 1) |->
                       IF i < address4_size THEN [family |-> "AF_INET", name |-> "10.0.0.1"]
                       ELSE IF i >= AS_ADDRESS4_MAX /\ i < AS_ADDRESS4_MAX + address6_size
                       THEN [family |-> "AF_INET6", name |-> "fe80::1"]
                       ELSE FreeSlot]
    /\ address_index \in Stored
    /\ connect = NoAttempt

NextConnect ==
    \/ as_node_create_socket
    \/ as_node_create_connection
    \/ as_event_connect_addresses

SpecConnect == InitConnect /\ [][NextConnect]_vars


(***************************************************************************)
(* Properties of the command state machine                                 *)
(***************************************************************************)

\* C4: an async command gets exactly one of the terminal outcomes DONE or
\* ERROR, exactly once: never two deliveries, and a command that has been
\* released has had exactly one.
C4_Original ==
    /\ cmd.ndone + cmd.nerror <= 1
    /\ cmd.where = "freed" => cmd.ndone + cmd.nerror = 1

\* position of a state in the chain TLS_CONNECT -> ... -> DONE
Rank(st) ==
    CASE st = "TLS_CONNECT" -> 1
      [] st = "AUTH_WRITE" -> 2
      [] st = "AUTH_READ_HEADER" -> 3
      [] st = "AUTH_READ_BODY" -> 4
      [] st = "COMMAND_WRITE" -> 5
      [] st = "COMMAND_READ_HEADER" -> 6
      [] st = "COMMAND_READ_BODY" -> 7
      [] st = "DONE" -> 8
      [] OTHER -> 0

\* the state as_ev_watcher_init must choose
InitialState == IF tls_ctx THEN "TLS_CONNECT" ELSE IF user THEN "AUTH_WRITE" ELSE "COMMAND_WRITE"

\* a step along the chain, or the loopback of a multi-block read
Advances ==
    \/ cmd'.state = cmd.state
    \/ Rank(cmd'.state) > Rank(cmd.state)
    \/ cmd.state = "COMMAND_READ_BODY" /\ cmd'.state = "COMMAND_READ_HEADER"

\* the command gets a connection: as_ev_watcher_init has run
Connects == cmd.where = "queued" /\ cmd'.where = "conn"

\* with a user, a command at or past COMMAND_WRITE has had its
\* authentication response body read and accepted
AuthFirst == (user /\ Rank(cmd.state) >= Rank("COMMAND_WRITE")) => cmd.auth_ok

\* C7 as stated: the state of a command only advances along the chain, with
\* COMMAND_READ_BODY -> COMMAND_READ_HEADER the only step back; it starts in
\* the state its configuration asks for; with a user it does not reach
\* COMMAND_WRITE before its authentication response was accepted.
C7_Original ==
    /\ [][Advances]_vars
    /\ [][Connects => cmd'.state = InitialState]_vars
    /\ []AuthFirst

\* C7 amended: the same within one connection attempt; a command that is
\* retried starts again from its initial state on the new connection.
C7_Amended ==
    /\ [][Advances \/ (Connects /\ cmd.iteration > 0)]_vars
    /\ [][Connects => cmd'.state = InitialState]_vars
    /\ []AuthFirst

\* a retried command has walked the whole chain again, loopback included
C7_Witness ==
    /\ tls_ctx /\ user
    /\ cmd.iteration > 0
    /\ cmd.where = "conn"
    /\ cmd.state = "COMMAND_READ_HEADER"
    /\ cmd.blk > 0

\* C8: a multi-block response reaches DONE only when the parser reported
\* finished, after as many header+body cycles as the response has blocks
\* (two for one data block and the terminal block); a block of the end
\* marker's size that the parser does not finish on leaves the command
\* reading, in COMMAND_READ_HEADER with len = sizeof(as_proto).
C8_MultiBlock ==
    /\ cmd.state = "DONE" => cmd.blk = Len(stream) /\ cmd.cycles = Len(stream)
    /\ (cmd.where = "conn" /\ cmd.blk >= 1) =>
          cmd.state \in {"COMMAND_READ_HEADER", "COMMAND_READ_BODY"}
    /\ (cmd.where = "conn" /\ cmd.state = "COMMAND_READ_HEADER") =>
          cmd.len = sizeof_as_proto /\ cmd.pos < cmd.len

\* a data block, a payload of the end marker's size that the parser does not
\* finish on, then the terminal block: DONE after exactly three cycles
C8_Witness ==
    /\ stream = <<sizeof_as_msg + 1, sizeof_as_msg, sizeof_as_msg>>
    /\ cmd.state = "DONE"
    /\ cmd.cycles = 3

\* is q a prefix of r
IsPrefix(q, r) == Len(q) <= Len(r) /\ \A i \in 1..Len(q) : q[i] = r[i]

\* C9: on a pipelined connection a read event goes to the oldest command
\* whose response is awaited; to the command being written when there is one
\* and no response is awaited; to nobody when there is neither.  The
\* responses are delivered in the order in which the requests were written.
C9_PipelineOrder ==
    /\ pipe_obs.target = IF Len(pipe_obs.readers) > 0 THEN pipe_obs.readers[1]
                         ELSE pipe_obs.writer
    /\ IsPrefix(pipe_called, pipe_written)

\* three requests were written, two responses are delivered, and the last
\* read event found a command being written behind an awaited response
C9_Witness ==
    /\ pipe_written = <<1, 2, 3>>
    /\ pipe_called = <<1, 2>>
    /\ pipe_obs.writer = 3
    /\ pipe_obs.readers = <<2>>
    /\ pipe_obs.target = 2

\* C10: one run of as_ev_wakeup invokes no more executables than the queue
\* held when the handler first took the lock, and only those: what it has
\* invoked is a prefix of the queue as it was then.  Executables pushed later,
\* by other threads or by an executable, wait for another wakeup.
C10_WakeBound ==
    /\ Len(executed) <= wakeup.size
    /\ wakeup.size = Len(snapshot)
    /\ IsPrefix(executed, snapshot)

\* the handler found two executables, invoked both and returned, and the
\* queue holds what was pushed in the meantime
C10_Witness ==
    /\ wakeup.pc = "idle"
    /\ Len(snapshot) = 2
    /\ executed = snapshot
    /\ Len(loop_queue) >= 1

\* C11: a wakeup that pops the null executable stops the wakeup watcher,
\* stops the reactor exactly when the library created the loop threads,
\* destroys the loop's resources, and invokes nothing more: what it invoked
\* is what stood before the null entry, whatever is still queued; until then
\* the loop is untouched.
C11_Closed ==
    /\ wakeup.pc = "closed" =>
         /\ ~event_loop.wakeup_started
         /\ event_loop.destroyed
         /\ event_loop.running = ~as_event_threads_created
         /\ IsPrefix(executed, snapshot)
         /\ snapshot[Len(executed) + 1] = 0
    /\ wakeup.pc # "closed" => event_loop = RunningLoop

C11_StopSignal ==
    /\ []C11_Closed
    /\ [][wakeup.pc = "closed" \/ wakeup'.pc = "closed" => executed' = executed]_vars

\* an external loop is closed after one executable, with another still queued
\* behind the null entry: the reactor keeps running
C11_Witness ==
    /\ wakeup.pc = "closed"
    /\ ~as_event_threads_created
    /\ event_loop.running
    /\ Len(executed) = 1
    /\ Len(loop_queue) >= 1

\* threads between a won compare-and-swap and their pthread_cond_signal
Signalling == [r \in {x \in AuthLocals : x.pc = "cond_signal"} |-> CopiesIn(r, auth_thr)]

\* C12 as stated: login requests are coalesced, so that between two
\* successful logins at most one tend wake is issued
C12_Original ==
    /\ owed_signals = BagCardinality(Signalling)
    /\ signals_since_login <= 1

\* C12: login requests are coalesced by the flag.  Every tend wake is issued
\* by a thread whose compare-and-swap changed perform_login from 0 to 1, one
\* wake per such thread; a thread that finds the flag set does not signal;
\* and between two successful logins the flag is won at most once.
C12_Amended ==
    /\ owed_signals = BagCardinality(Signalling)
    /\ wins_since_login <= 1
    /\ perform_login = 1 => wins_since_login = 1

\* a thread calls as_node_signal_login while the flag is set, after the
\* thread that set it has issued its wake
C12_Witness ==
    /\ perform_login = 1
    /\ logins = 0
    /\ owed_signals = 0
    /\ signals_since_login = 1
    /\ \E r \in AuthLocals : r.pc = "signal_login"

\* C13: a thread authenticating a new connection while the tend thread logs
\* in never hands as_authenticate a freed token, nor a token with the length
\* of another token.
C13_Original == \A r \in AuthLocals : r.observed \in {"none", "ok"}

\* C14: perform_login is set only by a thread that saw as_authenticate
\* fail, and cleared only by the last step of a successful login; a failed
\* login changes neither the flag nor the session fields; a caller of
\* as_node_ensure_login that finds the flag cleared gets no error from it.
C14_LoginFlag ==
    /\ [][perform_login = 0 /\ perform_login' = 1 =>
            \E r \in AuthLocals :
               /\ r.pc = "signal_login" /\ r.status = "fail"
               /\ CopiesIn(r, auth_thr') < CopiesIn(r, auth_thr)]_vars
    /\ [][perform_login = 1 /\ perform_login' = 0 =>
            login.pc = "store_perform_login" /\ login'.status = "ok_auth"]_vars
    /\ [][login.pc = "as_cluster_login" /\ login'.status = "error" =>
            UNCHANGED <<perform_login, session, freed>>]_vars
    /\ [][login.pc = "idle" /\ login' # login /\ perform_login = 0 =>
            /\ login'.status # "error"
            /\ session.expiration = 0 => login'.status = "ok_no_auth"]_vars

\* after one successful login a new request was raised and the next login
\* failed: the flag is still set, the session is that of the first login
C14_Witness ==
    /\ login.status = "error"
    /\ login.pc = "idle"
    /\ logins = 1
    /\ perform_login = 1
    /\ session.token = 1 /\ session.length = Token(1).length

\* the number a rack id text stands for
RackIdNumber(text) ==
    CASE text = <<"1">> -> 1
      [] text = <<"1", "2">> -> 12
      [] text = <<"0", "1">> -> 1

\* the rack-ids value is in the format of the info protocol: every namespace
\* name has 1 to AS_MAX_NAMESPACE_SIZE - 1 bytes and the value ends in a newline
WellFormedRackIds(sent) ==
    /\ sent.newline
    /\ \A i \in DOMAIN sent.entries :
           Len(sent.entries[i].ns) \in 1..(AS_MAX_NAMESPACE_SIZE - 1)

SameRackIds(sent) ==
    \A i, j \in DOMAIN sent.entries :
        RackIdNumber(sent.entries[i].id) = RackIdNumber(sent.entries[j].id)

Reserving(id) == {r \in Readers : r.racks = id /\ r.pc \in {"compare", "release"}}

InGc(id) == {i \in DOMAIN cluster_gc : cluster_gc[i] = id}

C18_Snapshots ==
    /\ ~RacksUndefined
    /\ node_racks # 0 =>
           /\ rack_heap[node_racks].initialized
           /\ ~rack_heap[node_racks].freed
    /\ \A id \in DOMAIN rack_heap :
           /\ rack_heap[id].initialized /\ ~rack_heap[id].freed =>
                  rack_heap[id].ref_count =
                      1 + BagCardinality([r \in Reserving(id) |-> CopiesIn(r, rack_thr)])
           /\ Cardinality(InGc(id)) <= 1
           /\ (id < node_racks /\ id # rack_tend.old) => (InGc(id) = {}) = rack_heap[id].freed
           /\ rack_heap[id].freed => \A r \in Readers : r.racks # id

\* C18: a new rack snapshot has its reference count set to 1 before readers
\* can see it; the snapshot it replaces is never freed or written by the
\* replacement but is put on the garbage list, once; a reader that loaded
\* the replaced snapshot never touches freed memory and, when it is done, has
\* left the reference count as it found it.
C18_RackSwap ==
    /\ []C18_Snapshots
    /\ [][/\ \A id \in DOMAIN rack_heap :
                 rack_heap[id].initialized =>
                     /\ rack_heap'[id].size = rack_heap[id].size
                     /\ rack_heap'[id].rack_id = rack_heap[id].rack_id
                     /\ rack_heap'[id].racks = rack_heap[id].racks
          /\ node_racks' # node_racks =>
                 /\ rack_heap[node_racks'].initialized
                 /\ rack_heap[node_racks'].ref_count = 1
                 /\ node_racks # 0 => ~rack_heap'[node_racks].freed
          /\ (rack_tend.pc = "gc" /\ rack_tend'.pc = "idle" /\ rack_tend.old # 0) =>
                 /\ cluster_gc' = Append(cluster_gc, rack_tend.old)
                 /\ rack_heap' = rack_heap]_vars

C18_Witness ==
    \E r \in Readers :
        /\ r.pc = "release"
        /\ r.racks # node_racks
        /\ InGc(r.racks) # {}
        /\ rack_heap[r.racks].ref_count = 2

\* C15 as stated: whenever the response to as_node_refresh has a node name
\* that differs from node->name, the node is inactive when the call returns
\* and the call returns an error.
C15_Original ==
    (refresh.fn = "as_node_refresh" /\ refresh.renamed) =>
        ~active /\ refresh.status # "AEROSPIKE_OK"

\* C15: as_node_refresh returns an error whenever its response has a node
\* name that differs from node->name, and the node is inactive when it
\* returns if no pair before that name is an empty node name or a name that
\* was not requested; an inactive node never becomes active again.
C15_Amended ==
    /\ [](/\ (refresh.fn = "as_node_refresh" /\ refresh.renamed) =>
                 refresh.status = "AEROSPIKE_ERR_CLIENT"
          /\ (refresh.fn = "as_node_refresh" /\ refresh.first_bad = "renamed") => ~active)
    /\ [][~active => ~active']_vars

C15_Witness ==
    /\ refresh.fn = "as_node_refresh"
    /\ refresh.first_bad = "renamed"
    /\ refresh.status = "AEROSPIKE_ERR_CLIENT"
    /\ ~active
    /\ info_socket.fd < 0

\* C16: whenever the response to as_node_refresh, as_node_refresh_peers,
\* as_node_refresh_partitions or as_node_refresh_racks has a name that was
\* not requested, the call returns an error and the info socket is closed.
C16_Original ==
    refresh.unrequested =>
        refresh.status # "AEROSPIKE_OK" /\ info_socket.fd < 0

\* the filled slots of node->addresses
Filled(a) == {i \in DOMAIN a : a[i] # FreeSlot}

\* C19 as stated: a second as_node_add_alias call with the same hostname and
\* port leaves the alias list as the call found it, and the list never has
\* more entries than its capacity.
C19_Original ==
    /\ Len(aliases) <= aliases_capacity
    /\ alias_call.again => aliases = alias_call.before

\* C20: address4_size never exceeds AS_ADDRESS4_MAX and AS_ADDRESS4_MAX +
\* address6_size never exceeds AS_ADDRESS6_MAX; the filled slots are the
\* first address4_size IPv4 slots and the first address6_size IPv6 slots; an
\* add that finds its family full changes nothing; and a slot once written
\* keeps its entry.
C20_Addresses ==
    /\ [](/\ address4_size <= AS_ADDRESS4_MAX
          /\ AS_ADDRESS4_MAX + address6_size <= AS_ADDRESS6_MAX
          /\ Filled(addresses) =
                 0..(address4_size - 1)
                     \cup AS_ADDRESS4_MAX..(AS_ADDRESS4_MAX + address6_size - 1)
          /\ \A i \in 0..(address4_size - 1) : addresses[i].family = "AF_INET"
          /\ \A i \in AS_ADDRESS4_MAX..(AS_ADDRESS4_MAX + address6_size - 1) :
                 addresses[i].family = "AF_INET6")
    /\ [][/\ \A i \in Filled(addresses) : addresses'[i] = addresses[i]
          /\ address4_size' >= address4_size
          /\ address6_size' >= address6_size
          /\ (address4_size = AS_ADDRESS4_MAX /\ address_call'.family = "AF_INET") =>
                 /\ ~address_call'.stored
                 /\ UNCHANGED <<addresses, address4_size, address6_size>>
          /\ (AS_ADDRESS4_MAX + address6_size = AS_ADDRESS6_MAX
                  /\ address_call'.family = "AF_INET6") =>
                 /\ ~address_call'.stored
                 /\ UNCHANGED <<addresses, address4_size, address6_size>>
          /\ address_call'.stored =>
                 Filled(addresses') # Filled(addresses)]_vars

C20_Witness ==
    /\ address4_size = AS_ADDRESS4_MAX
    /\ address6_size > 0
    /\ address_call.family = "AF_INET"
    /\ ~address_call.stored

\* the members of a set of slots in ascending order
Ascending(S) ==
    CHOOSE f \in [1..Cardinality(S) -> S] : \A i, j \in 1..Cardinality(S) : i < j => f[i] < f[j]

\* the order the addresses are to be tried in for the hint h when sockets of
\* the given families can be created
ProbeSequence(h, sockets) ==
    LET own == {i \in Stored : addresses[i].family = addresses[h].family}
        other == Stored \ own
    IN  (IF addresses[h].family \in sockets
         THEN <<h>> \o Ascending({i \in own : i > h}) \o Ascending({i \in own : i < h})
         ELSE <<>>)
        \o (IF other # {} /\ addresses[CHOOSE i \in other : TRUE].family \in sockets
            THEN Ascending(other) ELSE <<>>)

\* C21: a connect, sync or async, tries the hinted address first, then the
\* later and then the earlier addresses of its family, then the addresses of
\* the other family; no address twice; it stops at the first address that
\* connects and fails only if none of the addresses it can make a socket for
\* connects; and address_index afterwards is the slot that connected.
C21_ConnectOrder ==
    connect.fn # "none" =>
        LET order == ProbeSequence(connect.hint, connect.sockets)
            n == Len(connect.attempts)
        IN  /\ IsPrefix(connect.attempts, order)
            /\ \A i, j \in 1..n : i # j => connect.attempts[i] # connect.attempts[j]
            /\ \A i \in 1..(n - 1) : connect.attempts[i] \notin connect.connectable
            /\ connect.rv >= 0 <=>
                   \E i \in connect.connectable : addresses[i].family \in connect.sockets
            /\ connect.rv >= 0 =>
                   /\ connect.rv = connect.attempts[n]
                   /\ connect.rv \in connect.connectable
                   /\ address_index = connect.rv
            /\ connect.rv < 0 =>
                   /\ connect.attempts = order
                   /\ address_index = connect.hint

C21_Witness ==
    /\ connect.fn = "as_event_connect"
    /\ connect.rv >= 0
    /\ connect.rv < connect.hint
    /\ addresses[connect.rv].family = addresses[connect.hint].family
    /\ Len(connect.attempts) = AS_ADDRESS4_MAX
    /\ address_index = connect.rv

\* the threads' locals after the step
LocalsAfter == BagToSet(thr')

\* C22: a socket popped from the head of a sub-pool by
\* as_node_get_connection is handed to the caller only if it validated
\* (which needs an idle time within the limit); a socket that did not
\* validate is closed with exactly one reservation of the sub-pool it was
\* popped from released, is held by nobody afterwards, is not put back, and
\* the search goes on.
C22_Validated ==
    [][/\ \A p \in Pools :
            (Len(queue'[p]) = Len(queue[p]) - 1 /\ sweep' = sweep) =>
                LET s == Head(queue[p]) IN
                /\ queue'[p] = Tail(queue[p])
                /\ total' = total
                /\ \/ /\ as_socket_current(s)
                      /\ \E r \in LocalsAfter :
                            r.pc = "leased" /\ r.sock.id = s.id /\ r.sock.pool = p
                   \/ \E r \in LocalsAfter :
                            r.pc = "close_invalid" /\ r.s.id = s.id /\ r.s.pool = p
       /\ \A r \in Locals :
            (r.pc = "close_invalid" /\ r \notin LocalsAfter) =>
                /\ total' = [total EXCEPT ![r.s.pool] = @ - 1]
                /\ queue' = queue
                /\ Holders(r.s.id)' = 0
                /\ [r EXCEPT !.pc = "pop", !.s = NoSock] \in LocalsAfter
      ]_vars

\* C22 witness: a socket that became too old in the queue was popped and did
\* not validate; its reservation is still counted and nobody else has it.
C22_Witness ==
    \E r \in Locals :
        /\ r.pc = "close_invalid"
        /\ total[r.s.pool] = 1
        /\ Holders(r.s.id) = 1
        /\ Len(queue[r.s.pool]) = 0

\* C23: the idle sweep takes the sockets of a sub-pool from the tail one at
\* a time; a socket idle longer than the limit is closed and one reservation
\* of the sub-pool released, and the sweep pops again; the first socket
\* within the limit is put back at the tail and ends the sweep of the
\* sub-pool; the sockets that were not popped stay as they are.
C23_IdleSweep ==
    [][/\ (sweep.pc = "pop" /\ sweep'.s # NoSock) =>
            LET i == sweep.i
                n == Len(queue[i])
            IN  /\ n > 0
                /\ sweep'.s = queue[i][n]
                /\ queue' = [queue EXCEPT ![i] = SubSeq(@, 1, n - 1)]
                /\ total' = total
                /\ sweep'.i = i
                /\ sweep'.pc = IF queue[i][n].idle > max_socket_idle_ns
                               THEN "close" ELSE "push_back"
       /\ (sweep.pc = "close" /\ sweep'.pc # "close") =>
            /\ total' = [total EXCEPT ![sweep.i] = @ - 1]
            /\ queue' = queue
            /\ sweep' = [pc |-> "pop", i |-> sweep.i, s |-> NoSock]
       /\ (sweep.pc = "push_back" /\ sweep'.pc # "push_back") =>
            /\ total' = total
            /\ queue' = [queue EXCEPT ![sweep.i] = Append(@, sweep.s)]
            /\ sweep' = [pc |-> "pop", i |-> sweep.i + 1, s |-> NoSock]
      ]_vars

\* C23 witness: the sweep has popped a socket within the limit from the
\* tail of a sub-pool and left an older socket in the queue.
C23_Witness ==
    /\ sweep.pc = "push_back"
    /\ Len(queue[sweep.i]) > 0
    /\ total[sweep.i] = 2

\* the sockets of sub-pool p in the order of their last use, the least
\* recently used one at the head
Ordered(p) ==
    \A j, k \in 1..Len(queue[p]) : j < k => queue[p][j].idle >= queue[p][k].idle

\* C24 as claimed: every sub-pool's queue is in the order of last use with
\* the least recently used socket at the head, and when the idle sweep
\* leaves a sub-pool at a socket within the limit no socket idle longer
\* than the limit is left in it.
C24_Original ==
    /\ [](\A p \in Pools : Ordered(p))
    /\ [][(sweep.pc = "push_back" /\ sweep'.pc # "push_back") =>
            \A k \in 1..Len(queue[sweep.i]) : as_socket_current(queue[sweep.i][k])]_vars

\* the retry check accepted: the command is queued for a new connection
\* attempt and no error callback was delivered
RetryAccepted ==
    /\ cmd'.where = "queued"
    /\ cmd'.iteration = cmd.iteration + 1
    /\ cmd'.nerror = cmd.nerror

\* the retry check declined: the error callback was delivered and the
\* command was not rescheduled
RetryDeclined ==
    /\ cmd'.where = "freed"
    /\ cmd'.nerror = cmd.nerror + 1
    /\ cmd'.iteration = cmd.iteration

\* C25: an I/O failure reported by as_ev_write, as_ev_read or
\* as_ev_tls_connect has exactly one of two results: the command is
\* rescheduled and no error callback is delivered, or the error callback is
\* delivered and the command is not rescheduled; in both the connection is
\* gone and no result is delivered.
C25_RetryOrError ==
    [][(cmd'.failure # cmd.failure /\ cmd'.failure.kind # "none") =>
            /\ RetryAccepted # RetryDeclined
            /\ cmd'.ndone = cmd.ndone
            /\ cmd'.watching = "none"]_vars

\* C25 witness: a failure was retried, and the peer close that ended the second
\* attempt was declined and its error delivered.
C25_Witness ==
    /\ cmd.where = "freed"
    /\ cmd.failure.kind = "Socket read closed by peer"
    /\ cmd.iteration = max_retries
    /\ cmd.iteration > 0
    /\ cmd.nerror = 1
    /\ ~cmd.touched

C27_AuthTerminal ==
    [][/\ (/\ cmd'.failure # cmd.failure
           /\ cmd'.failure.kind \in {"Authenticate response size is corrupt",
                                     "Authentication failed"}) =>
               /\ RetryDeclined
               /\ cmd'.ndone = cmd.ndone
               /\ cmd'.watching = "none"
               /\ cmd'.failure.state = "AUTH_READ_BODY"
               /\ perform_login' = IF cmd'.failure.kind = "Authentication failed"
                                   THEN 1 ELSE perform_login
       /\ (/\ cmd.where = "conn"
           /\ cmd.state \in {"AUTH_READ_HEADER", "AUTH_READ_BODY"}
           /\ cmd'.where = "queued") =>
               cmd'.failure.kind \in ReadFailures \cup WriteFailures
      ]_vars

\* C27 witness: the server refused the authentication of a command's first
\* attempt; with a retry left the command is freed with its error and the
\* node is asked to log in.
C27_Witness ==
    /\ cmd.failure.kind = "Authentication failed"
    /\ cmd.iteration = 0
    /\ max_retries > 0
    /\ cmd.where = "freed"
    /\ cmd.nerror = 1
    /\ perform_login = 1

\* C28: the result parser is never given a body that is still compressed;
\* when the decompression of a body fails the command ends with an error,
\* is not retried and the parser is not called; a body of the end block's
\* size that is compressed is not parsed by the peek.
C28_Decompressed ==
    /\ [](cmd.parsed.raw = FALSE)
    /\ [][(cmd'.failure # cmd.failure /\ cmd'.failure.kind = "Decompress failed") =>
              /\ RetryDeclined
              /\ cmd'.ndone = cmd.ndone
              /\ cmd'.parsed = cmd.parsed
              /\ cmd'.body = "compressed"]_vars
    /\ [][cmd'.parsed.n > cmd.parsed.n => cmd'.body = "plain"]_vars

\* C28 witness: a compressed body of the end block's size arrived after a
\* block the parser did not finish on, was decompressed and parsed, and the
\* command completed.
C28_Witness ==
    /\ cmd.state = "DONE"
    /\ cmd.proto_type_rcv = "compressed"
    /\ cmd.parsed.n = 2
    /\ Len(stream) = 2
    /\ stream[2] = sizeof_as_msg
    /\ cmd.body = "plain"

\* the readiness a command in its state needs: write readiness while bytes
\* of a request are unwritten, read readiness while a response is read; with
\* TLS the other one when the TLS layer asked for it
InterestMatches(m) ==
    /\ m.state \in {"AUTH_WRITE", "COMMAND_WRITE"} =>
           m.watching = "write" \/ (tls_ctx /\ m.watching = "read")
    /\ m.state \in {"AUTH_READ_HEADER", "AUTH_READ_BODY",
                    "COMMAND_READ_HEADER", "COMMAND_READ_BODY"} =>
           m.watching = "read" \/ (tls_ctx /\ m.watching = "write")

\* C29 as claimed: whenever the loop thread is back in the reactor and the
\* command is on its connection, the connection is registered for the
\* readiness the command needs.
C29_Original ==
    (ev_pc = "reactor" /\ cmd.where = "conn") => InterestMatches(cmd)

\* C30: with TLS, a callback that handled a command in TLS_CONNECT or in a
\* read state is back in the reactor with the command still on its
\* connection only when the TLS layer reported no pending bytes; while it
\* reports some, the loop thread stays in the read loop of the state.
C30_TlsPending ==
    /\ []((ev_pc = "reactor" /\ cmd.where = "conn" /\ ~cmd.touched) => ~cmd.pending)
    /\ []((ev_pc \in {"auth_loop", "command_loop"} /\ ~cmd.touched) =>
             /\ tls_ctx
             /\ cmd.pending
             /\ (ev_pc = "auth_loop") = (cmd.state \in {"AUTH_READ_HEADER", "AUTH_READ_BODY"})
             /\ (ev_pc = "command_loop")
                    = (cmd.state \in {"COMMAND_READ_HEADER", "COMMAND_READ_BODY"}))
    /\ [][(cmd.pending /\ ~cmd.touched /\ cmd'.where = "conn" /\ ev_pc' = "reactor") =>
              ~cmd'.pending]_vars

\* C30 witness: the callback read a whole block of a response, found bytes
\* pending in the TLS layer and is going round the read loop again.
C30_Witness ==
    /\ tls_ctx
    /\ ev_pc = "command_loop"
    /\ cmd.pending
    /\ cmd.blk = 1
    /\ cmd.state = "COMMAND_READ_BODY"
    /\ ~cmd.touched

\* C31: a connection attempt that fails leaves no socket open and releases
\* exactly the one reservation made for it.  Sync: one as_conn_pool_decr of
\* the pool passed in (none for a caller without a pool), after a failure on
\* all addresses and after a refused authentication, which also closes the
\* connected socket and signals a login.  Async: the connection object is
\* freed, the count lowered once, pool->opened not incremented, and the
\* command is retried or gets one error callback, not both.  An attempt
\* that succeeds keeps one socket and its reservation.
C31_FailedAttempt ==
    connect.fn # "none" =>
        LET open == connect.created - connect.closed
            sync == connect.fn \in {"as_node_create_socket", "as_node_create_connection"}
        IN  IF connect.status = "AEROSPIKE_OK"
            THEN /\ open = 1
                 /\ connect.rv >= 0
                 /\ connect.decr = 0
                 /\ ~connect.conn_freed
                 /\ connect.callbacks = 0 /\ ~connect.retried
                 /\ connect.opened = IF sync THEN 0 ELSE 1
            ELSE /\ open = 0
                 /\ connect.decr = IF connect.pool THEN 1 ELSE 0
                 /\ connect.opened = 0
                 /\ connect.signal_login = (connect.status = "AEROSPIKE_NOT_AUTHENTICATED")
                 /\ connect.signal_login => connect.rv >= 0
                 /\ IF sync
                    THEN connect.callbacks = 0 /\ ~connect.retried /\ ~connect.conn_freed
                    ELSE /\ connect.rv < 0
                         /\ connect.conn_freed
                         /\ connect.retried = (connect.callbacks = 0)
                         /\ connect.callbacks <= 1

\* C31 witness: a sync attempt for a sub-pool whose IPv4 socket failed on
\* every address and whose IPv6 socket connected was refused by the server.
C31_Witness ==
    /\ connect.fn = "as_node_create_connection"
    /\ connect.pool
    /\ connect.status = "AEROSPIKE_NOT_AUTHENTICATED"
    /\ connect.created = 2
    /\ connect.closed = 2
    /\ connect.decr = 1


(***************************************************************************)
(* The as_proto header of an info request (as_node_get_info).  The header  *)
(* is eight bytes: the version byte, the type byte and a 48-bit body size. *)
(* In memory the size is in host order (least significant byte first); on  *)
(* the wire it is big-endian.  The size is kept as its six base-256 digits,*)
(* least significant first, so that no value leaves the checker's integers.*)
(***************************************************************************)

\* how many low-order bytes of the body size take values other than zero
MaxSizeBytes == 3

\* the values a byte of the body size is drawn from
SizeBytes == {0, 1, 255}

\* the type tags written into a header: info, message, compressed message
ProtoTypes == {1, 3, 4}

\* the body sizes: six digits, the high ones zero
ProtoSizes ==
    {s \in [1..6 -> SizeBytes \cup {0}] : \A i \in 1..6 : i > MaxSizeBytes => s[i] = 0}

\* the eight bytes of a header in memory: version, type, size in host order
HostBytes(version, type, sz) == <<version, type>> \o sz

\* the fields read from a header in memory
HostFields(bytes) ==
    [version |-> bytes[1], type |-> bytes[2], sz |-> SubSeq(bytes, 3, 8)]

\* cf_swap_to_be64 / cf_swap_from_be64 on a little-endian host: the eight
\* bytes of a word in reverse order
cf_swap64(word) == [i \in 1..8 |-> word[9 - i]]

\* storing a 64-bit value into the 48-bit size field keeps its six low
\* bytes and leaves version and type alone
StoreSz(bytes, word) == <<bytes[1], bytes[2]>> \o SubSeq(word, 1, 6)

\* a swap that leaves the header as it is
as_proto_swap_None(bytes) == bytes

\* as_proto_swap_to_be: version and type are set aside and zeroed, the
\* whole word is swapped and stored as the size, version and type are put back
as_proto_swap_to_be(bytes) ==
    LET zeroed == <<0, 0>> \o SubSeq(bytes, 3, 8)
    IN  StoreSz(bytes, cf_swap64(zeroed))

\* as_proto_swap_from_be: the same steps with cf_swap_from_be64, which on a
\* little-endian host reverses the word as well
as_proto_swap_from_be(bytes) ==
    LET zeroed == <<0, 0>> \o SubSeq(bytes, 3, 8)
    IN  StoreSz(bytes, cf_swap64(zeroed))

\* as_node_get_info fills the header of the request in host order
as_node_get_info_header ==
    /\ proto.pc = "header"
    /\ proto' = [proto EXCEPT !.pc = "host",
                              !.bytes = HostBytes(proto.version, proto.type, proto.sz)]
    /\ UNCHANGED notProto

\* as_node_get_info swaps the header to wire order before it is sent
as_node_get_info_send ==
    /\ proto.pc = "host"
    /\ proto' = [proto EXCEPT !.pc = "wire", !.bytes = as_proto_swap_to_be(proto.bytes)]
    /\ UNCHANGED notProto

\* as_node_get_info swaps a header read from the wire to host order
as_node_get_info_receive ==
    /\ proto.pc = "wire"
    /\ proto' = [proto EXCEPT !.pc = "read", !.bytes = as_proto_swap_from_be(proto.bytes)]
    /\ UNCHANGED notProto

\* a header is to be written with one body size and one type tag
InitProto ==
    /\ IdleNode
    /\ NoAttempts
    /\ NoPolicy
    /\ NoKeyCall
    /\ NoRacks
    /\ NoRefresh
    /\ NoHosts
    /\ NoConnect
    /\ \E sz \in ProtoSizes, type \in ProtoTypes :
           proto = [pc |-> "header", sz |-> sz, type |-> type, version |-> 2, bytes |-> <<>>]

NextProto ==
    \/ as_node_get_info_header
    \/ as_node_get_info_send
    \/ as_node_get_info_receive

SpecProto == InitProto /\ [][NextProto]_vars

\* C32: a header written with body size S and type tag T, swapped to wire
\* order and swapped back to host order, holds exactly S, T and the version
\* byte it was written with; on the wire the size is most significant byte
\* first and the version and type bytes are in place.
C32_RoundTrip ==
    /\ proto.pc = "wire" =>
          /\ proto.bytes[1] = proto.version
          /\ proto.bytes[2] = proto.type
          /\ \A i \in 1..6 : proto.bytes[2 + i] = proto.sz[7 - i]
    /\ proto.pc = "read" =>
          HostFields(proto.bytes) =
              [version |-> proto.version, type |-> proto.type, sz |-> proto.sz]

\* C32 witness: a header of size 0x01FF00 and the compressed type has made
\* the round trip.
C32_Witness ==
    /\ proto.pc = "read"
    /\ proto.sz = <<0, 255, 1, 0, 0, 0>>
    /\ proto.type = 4


\* a generation reported by the last as_node_refresh under the given name
\* that differs from the stored one
ReportedOther(name, stored) ==
    \E nv \in refresh.reported : nv.name = name /\ nv.value # stored

C38_Original ==
    [][(/\ refresh' # refresh
        /\ refresh'.fn = "as_node_refresh_racks"
        /\ refresh'.status = "AEROSPIKE_ERR_CLIENT"
        /\ refresh'.first_bad = "none") =>
           /\ node_racks' = node_racks
           /\ rebalance_generation' = rebalance_generation
      ]_vars


(***************************************************************************)
(* aerospike_key_put, aerospike_key_remove and aerospike_key_operate       *)
(* (cl_write.h) against a server that keeps one record under the key        *)
(***************************************************************************)

\* how many operations an as_operations holds
MaxOps == 2

\* the values of the bins: an integer and lists of two sizes
BinValues == {<<123>>, <<1, 2, 3>>, <<1>>}

\* the records a caller puts: every bin has a value or none
Records == [BinNames -> BinValues \cup {NoValue}] \ {NoRecord}

\* the operations of as_operations: touch, read of a bin, write of a bin
BinOps ==
    {[op |-> "AS_OPERATOR_TOUCH", bin |-> "", value |-> NoValue]}
        \cup [op : {"AS_OPERATOR_READ"}, bin : BinNames, value : {NoValue}]
        \cup [op : {"AS_OPERATOR_WRITE"}, bin : {"a"}, value : {<<123>>}]

Operations == UNION {[1..n -> BinOps] : n \in 1..MaxOps}

\* an operate loop that counts a touch as a read
OperateAttr_TouchRead(ops) ==
    [read |-> IF \E i \in DOMAIN ops : ops[i].op \in {"AS_OPERATOR_READ", "AS_OPERATOR_TOUCH"}
              THEN {"AS_MSG_INFO1_READ"} ELSE {},
     write |-> IF \E i \in DOMAIN ops : ops[i].op \notin {"AS_OPERATOR_READ", "AS_OPERATOR_TOUCH"}
               THEN {"AS_MSG_INFO2_WRITE"} ELSE {}]

\* aerospike_key_operate, lines 598-613: AS_OPERATOR_READ sets the read
\* attribute, every other operator the write attribute
OperateAttr(ops) ==
    [read |-> IF \E i \in DOMAIN ops : ops[i].op = "AS_OPERATOR_READ"
              THEN {"AS_MSG_INFO1_READ"} ELSE {},
     write |-> IF \E i \in DOMAIN ops : ops[i].op # "AS_OPERATOR_READ"
               THEN {"AS_MSG_INFO2_WRITE"} ELSE {}]

\* the operations of a put: one AS_OPERATOR_WRITE per bin of the record
PutOps(rec) ==
    {[op |-> "AS_OPERATOR_WRITE", bin |-> b, value |-> rec[b]] :
         b \in {c \in BinNames : rec[c] # NoValue}}

\* the server applies the operations of a command in order to the bins of
\* the record and collects the bins read
RECURSIVE ApplyOps(_, _, _)
ApplyOps(ops, bins, read) ==
    IF ops = <<>> THEN [bins |-> bins, rec |-> read]
    ELSE LET o == Head(ops)
         IN  CASE o.op = "AS_OPERATOR_READ" ->
                      ApplyOps(Tail(ops), bins, [read EXCEPT ![o.bin] = bins[o.bin]])
               [] o.op = "AS_OPERATOR_WRITE" ->
                      ApplyOps(Tail(ops), [bins EXCEPT ![o.bin] = o.value], read)
               [] OTHER -> ApplyOps(Tail(ops), bins, read)

\* as_command_execute with as_command_parse_result: the command reaches the
\* server, which answers a command without a write operation for a key
\* without a record with "not found"
Execute(ops) ==
    IF server_record = NoRecord /\ \A i \in DOMAIN ops : ops[i].op # "AS_OPERATOR_WRITE"
    THEN [status |-> "AEROSPIKE_ERR_RECORD_NOT_FOUND", record |-> NoRecord, rec |-> NoRecord]
    ELSE LET r == ApplyOps(ops, server_record, NoRecord)
         IN  [status |-> "AEROSPIKE_OK", record |-> r.bins, rec |-> r.rec]

\* aerospike_key_remove, lines 521-550
aerospike_key_remove ==
    /\ key_call' = [fn |-> "aerospike_key_remove",
                    status |-> IF server_record = NoRecord
                               THEN "AEROSPIKE_ERR_RECORD_NOT_FOUND" ELSE "AEROSPIKE_OK",
                    ops |-> <<>>, read_attr |-> {},
                    write_attr |-> {"AS_MSG_INFO2_WRITE", "AS_MSG_INFO2_DELETE"},
                    write |-> TRUE, rec |-> NoRecord, after |-> key_call.fn,
                    put |-> NoRecord]
    /\ server_record' = NoRecord
    /\ UNCHANGED notKey

\* aerospike_key_put, lines 382-445, with the policy exists = IGNORE
aerospike_key_put ==
    /\ \E rec \in Records :
        LET ops == PutOps(rec)
            bins == [b \in BinNames |->
                        IF rec[b] # NoValue THEN rec[b] ELSE server_record[b]]
        IN  /\ key_call' = [fn |-> "aerospike_key_put", status |-> "AEROSPIKE_OK",
                            ops |-> <<>>, read_attr |-> {},
                            write_attr |-> {"AS_MSG_INFO2_WRITE"},
                            write |-> TRUE, rec |-> NoRecord, after |-> key_call.fn,
                            put |-> rec]
            /\ server_record' = bins
    /\ UNCHANGED notKey

\* aerospike_key_operate, lines 579-643
aerospike_key_operate ==
    /\ \E ops \in Operations :
        LET attr == OperateAttr(ops)
            r == Execute(ops)
        IN  /\ key_call' = [fn |-> "aerospike_key_operate", status |-> r.status,
                            ops |-> ops, read_attr |-> attr.read,
                            write_attr |-> attr.write,
                            write |-> attr.write # {}, rec |-> r.rec,
                            after |-> key_call.fn, put |-> key_call.put]
            /\ server_record' = IF r.status = "AEROSPIKE_OK" THEN r.record
                                ELSE server_record
    /\ UNCHANGED notKey

InitKey ==
    /\ IdleNode
    /\ NoAttempts
    /\ NoPolicy
    /\ NoRacks
    /\ NoRefresh
    /\ NoHosts
    /\ NoConnect
    /\ NoProto
    /\ NoKeyCall

NextKey ==
    \/ aerospike_key_remove
    \/ aerospike_key_put
    \/ aerospike_key_operate

SpecKey == InitKey /\ [][NextKey]_vars

\* an operate of a touch followed by a read of bin b
TouchGet(b) ==
    <<[op |-> "AS_OPERATOR_TOUCH", bin |-> "", value |-> NoValue],
      [op |-> "AS_OPERATOR_READ", bin |-> b, value |-> NoValue]>>

ZeroField ==
    [timeout |-> 0, generation |-> 0,
     mode |-> "AS_POLICY_WRITEMODE_UNDEF", key |-> "AS_POLICY_KEY_UNDEF",
     gen |-> "AS_POLICY_GEN_UNDEF",
     fail_on_cluster_change |-> FALSE, send_as_is |-> FALSE, check_bounds |-> FALSE]

\* the values a caller sets the fields of an operation's policy to
FieldValues ==
    [timeout |-> {0, 500, 2000}, generation |-> {0, 5},
     mode |-> {"AS_POLICY_WRITEMODE_UNDEF", "AS_POLICY_WRITEMODE_ASYNC"},
     key |-> {"AS_POLICY_KEY_UNDEF", "AS_POLICY_KEY_SEND"},
     gen |-> {"AS_POLICY_GEN_UNDEF", "AS_POLICY_GEN_EQ"},
     fail_on_cluster_change |-> BOOLEAN, send_as_is |-> BOOLEAN, check_bounds |-> BOOLEAN]

\* the fields each resolve function assigns
ResolvedFields ==
    [as_policy_read_resolve |-> {"timeout", "key"},
     as_policy_write_resolve |-> {"timeout", "mode", "key", "gen"},
     as_policy_operate_resolve |-> {"timeout", "generation", "mode", "key", "gen"},
     as_policy_scan_resolve |-> {"timeout", "fail_on_cluster_change"},
     as_policy_query_resolve |-> {"timeout"},
     as_policy_info_resolve |-> {"timeout", "send_as_is", "check_bounds"}]

\* the policies of one operation over the given fields
RECURSIVE OpPolicies(_)
OpPolicies(fields) ==
    IF fields = {} THEN {<<>>}
    ELSE LET n == CHOOSE x \in fields : TRUE
         IN  {(n :> v) @@ f : v \in FieldValues[n], f \in OpPolicies(fields \ {n})}

\* as_policy_*_init, as_policy.c lines 23-74: nothing is set but the booleans
as_policy_init(fields) ==
    [n \in fields |-> IF n \in {"fail_on_cluster_change", "send_as_is", "check_bounds"}
                      THEN TRUE ELSE ZeroField[n]]

\* as_policies_init, lines 79-95: the defaults, and the policy of the
\* operation as as_policy_*_init leaves it
as_policies_init(fields) ==
    [timeout |-> 1000, mode |-> "AS_POLICY_WRITEMODE_RETRY",
     key |-> "AS_POLICY_KEY_DIGEST", gen |-> "AS_POLICY_GEN_IGNORE",
     exists |-> "AS_POLICY_EXISTS_IGNORE", op |-> as_policy_init(fields)]

\* a resolve macro that asks the global policy before the local one
as_policy_resolve_GlobalFirst(field, global, local, default) ==
    IF global[field] # ZeroField[field] THEN global[field]
    ELSE IF local # <<>> /\ local[1][field] # ZeroField[field] THEN local[1][field]
    ELSE default

\* the macro as_policy_resolve, part_000 lines 12-15; local is <<>> for NULL
as_policy_resolve(field, global, local, default) ==
    IF local # <<>> /\ local[1][field] # ZeroField[field] THEN local[1][field]
    ELSE IF global[field] # ZeroField[field] THEN global[field]
    ELSE default

\* the default a resolve function passes for a field: the field of the
\* as_policies, or true for the booleans
DefaultOf(global, field) ==
    IF field \in {"fail_on_cluster_change", "send_as_is", "check_bounds"} THEN TRUE
    ELSE IF field = "generation" THEN 0
    ELSE global[field]

\* the body of a resolve function: every field by the macro, except the
\* generation of as_policy_operate_resolve (line 49)
Resolve(fn, global, local) ==
    [n \in ResolvedFields[fn] |->
        IF n = "generation" THEN IF local # <<>> THEN local[1].generation ELSE 0
        ELSE as_policy_resolve(n, global.op, local, DefaultOf(global, n))]

\* a resolve function is called with a global and a local policy
Resolved(fn) ==
    /\ policy.fn = "idle"
    /\ \E global \in {as_policies_init(ResolvedFields[fn])}
                     \cup {[as_policies_init(ResolvedFields[fn]) EXCEPT !.op = g] :
                               g \in OpPolicies(ResolvedFields[fn])},
          local \in {<<>>} \cup {<<l>> : l \in OpPolicies(ResolvedFields[fn])} :
           policy' = [fn |-> fn, global |-> global, local |-> local,
                      p |-> Resolve(fn, global, local)]
    /\ UNCHANGED notPolicy

as_policy_read_resolve == Resolved("as_policy_read_resolve")

as_policy_write_resolve == Resolved("as_policy_write_resolve")

as_policy_operate_resolve == Resolved("as_policy_operate_resolve")

as_policy_scan_resolve == Resolved("as_policy_scan_resolve")

as_policy_query_resolve == Resolved("as_policy_query_resolve")

as_policy_info_resolve == Resolved("as_policy_info_resolve")

InitPolicy ==
    /\ IdleNode
    /\ NoAttempts
    /\ NoRacks
    /\ NoRefresh
    /\ NoHosts
    /\ NoConnect
    /\ NoProto
    /\ NoKeyCall
    /\ NoPolicy

NextPolicy ==
    \/ as_policy_read_resolve
    \/ as_policy_write_resolve
    \/ as_policy_operate_resolve
    \/ as_policy_scan_resolve
    \/ as_policy_query_resolve
    \/ as_policy_info_resolve

SpecPolicy == InitPolicy /\ [][NextPolicy]_vars

\* the three steps of the claim for one field: the local field when local is
\* not NULL and the field is not zero, else the field of the operation's
\* global policy when it is not zero, else the default
ThreeStep(n) ==
    IF policy.local # <<>> /\ policy.local[1][n] # ZeroField[n] THEN policy.local[1][n]
    ELSE IF policy.global.op[n] # ZeroField[n] THEN policy.global.op[n]
    ELSE DefaultOf(policy.global, n)

\* local = NULL against a fresh as_policies_init gives the defaults
FreshDefaults ==
    (/\ policy.fn # "idle"
     /\ policy.local = <<>>
     /\ policy.global = as_policies_init(ResolvedFields[policy.fn])) =>
        /\ policy.p.timeout = 1000
        /\ "key" \in DOMAIN policy.p => policy.p.key = "AS_POLICY_KEY_DIGEST"
        /\ "mode" \in DOMAIN policy.p => policy.p.mode = "AS_POLICY_WRITEMODE_RETRY"
        /\ "gen" \in DOMAIN policy.p => policy.p.gen = "AS_POLICY_GEN_IGNORE"

\* C35 as stated: every field a resolve function assigns is resolved in the
\* three steps, and local = NULL against a fresh as_policies_init gives
\* timeout 1000, key DIGEST, mode RETRY and gen IGNORE.
C35_Original ==
    policy.fn # "idle" =>
        /\ DOMAIN policy.p = ResolvedFields[policy.fn]
        /\ \A n \in DOMAIN policy.p : policy.p[n] = ThreeStep(n)
        /\ FreshDefaults

\* C35: every field a resolve function assigns, other than the generation of
\* as_policy_operate_resolve, is resolved in the three steps; the generation
\* is the local policy's when local is not NULL and 0 otherwise, whatever the
\* global operate policy holds; local = NULL against a fresh
\* as_policies_init gives timeout 1000, key DIGEST, mode RETRY and gen IGNORE.
C35_Amended ==
    policy.fn # "idle" =>
        /\ DOMAIN policy.p = ResolvedFields[policy.fn]
        /\ \A n \in DOMAIN policy.p \ {"generation"} : policy.p[n] = ThreeStep(n)
        /\ "generation" \in DOMAIN policy.p =>
               policy.p.generation = IF policy.local # <<>>
                                     THEN policy.local[1].generation ELSE 0
        /\ FreshDefaults

\* C35 witness: as_policy_operate_resolve took the timeout from the local
\* policy, the key from the global operate policy and the mode from the
\* default, with a generation set in the global operate policy only.
C35_Witness ==
    /\ policy.fn = "as_policy_operate_resolve"
    /\ policy.local # <<>>
    /\ policy.local[1].timeout = 500
    /\ policy.local[1].key = "AS_POLICY_KEY_UNDEF"
    /\ policy.local[1].generation = 0
    /\ policy.global.op.key = "AS_POLICY_KEY_SEND"
    /\ policy.global.op.generation = 5
    /\ policy.global.op.mode = "AS_POLICY_WRITEMODE_UNDEF"
    /\ policy.local[1].mode = "AS_POLICY_WRITEMODE_UNDEF"
    /\ policy.p.timeout = 500
    /\ policy.p.key = "AS_POLICY_KEY_SEND"
    /\ policy.p.mode = "AS_POLICY_WRITEMODE_RETRY"
    /\ policy.p.generation = 0

\* C40 as stated: a boolean field that is false in the local policy passed
\* to as_policy_scan_resolve or as_policy_info_resolve is resolved as false.
C40_Original ==
    \A n \in {"fail_on_cluster_change", "send_as_is", "check_bounds"} :
        (/\ policy.fn # "idle"
         /\ n \in DOMAIN policy.p
         /\ policy.local # <<>>
         /\ policy.local[1][n] = FALSE) => policy.p[n] = FALSE


\* C36 as stated: a readiness callback never uses the command or its
\* connection after the command was completed, failed or handed to a retry
\* inside that callback.
C36_Original == cmd.touched = FALSE


\* the entries of a sequence
Entries(q) == {q[i] : i \in DOMAIN q}

\* C37: what the loop thread has invoked is a beginning of what
\* as_event_execute returned true for, in push order and without the stop
\* request, so each executable is invoked at most once and in queue order;
\* every accepted executable is eventually invoked unless the loop is closed
\* first; an executable is invoked only by a run of as_ev_wakeup that found
\* it in the queue when it started, so one queued during a run waits for a
\* later run; and the wakeup is signalled only by a push that succeeded.
C37_Executed ==
    /\ [](/\ IsPrefix(invoked, accepted)
          /\ 0 \notin Entries(invoked))
    /\ [][/\ invoked' # invoked =>
                 /\ invoked' = Append(invoked, accepted[Len(invoked) + 1])
                 /\ invoked'[Len(invoked')] \in Entries(snapshot)
          /\ (wakeup_pending' /\ ~wakeup_pending) =>
                 /\ Len(accepted') = Len(accepted) + 1
                 /\ loop_queue' = Append(loop_queue, accepted'[Len(accepted')])
          /\ accepted' # accepted => wakeup_pending'
         ]_vars
    /\ \A e \in 1..MaxExec :
           (e \in Entries(accepted)) ~> (e \in Entries(invoked) \/ wakeup.pc = "closed")

\* C37 witness: the executable pushed by the first executable while the
\* handler ran was invoked by a second run, after the first one.
C37_Witness ==
    /\ invoked = <<1, 2>>
    /\ accepted = <<1, 2>>
    /\ snapshot = <<2>>
    /\ wakeup.pc = "idle"


(***************************************************************************)
(* The hint node->address_index under concurrent connects: a caller of     *)
(* as_node_create_socket and an event loop in as_event_connect load the     *)
(* hint, try the addresses and store the slot that connected, while the     *)
(* tend thread adds addresses.                                              *)
(***************************************************************************)

\* what the servers accept during one attempt: nothing, one slot, or all
Connectable == {{}} \cup {{i} : i \in Stored} \cup {Stored}

\* lines 313-314 and 1665-1666: index = node->address_index
LoadHint(t) ==
    /\ attempt[t].pc = "idle"
    /\ attempt' = [attempt EXCEPT ![t] = [pc |-> "loaded", index |-> address_index]]
    /\ UNCHANGED notHint

\* lines 317-351 and 1670-1694: the addresses are tried from the loaded
\* hint on; if (rv != index) as_store_uint32(&node->address_index, rv)
StoreHint(t) ==
    /\ attempt[t].pc = "loaded"
    /\ \E sockets \in SUBSET {"AF_INET", "AF_INET6"} : \E connectable \in Connectable :
         LET r == TryFrom(attempt[t].index, sockets, connectable)
         IN  address_index' = IF r.rv >= 0 /\ r.rv # attempt[t].index THEN r.rv
                              ELSE address_index
    /\ UNCHANGED connect
    /\ attempt' = [attempt EXCEPT ![t] = [pc |-> "idle", index |-> 0]]
    /\ UNCHANGED <<poolVars, evVars, pipeVars, wakeVars, loginVars, rackVars,
                   refreshVars, hostVars, protoVars, keyVars, policyVars>>

as_node_create_socket_load == LoadHint("sync")

as_node_create_socket_store == StoreHint("sync")

as_event_connect_load == LoadHint("async")

as_event_connect_store == StoreHint("async")

\* the tend thread adds an address of the node it found at a peer
as_node_add_address_tend ==
    /\ \E a \in {x \in Addresses : x.name \in {"10.0.0.1", "fe80::1"}} : AddAddress(a)
    /\ UNCHANGED <<aliases, alias_call>>
    /\ HostStep

NextHint ==
    \/ as_node_add_address_tend
    \/ as_node_create_socket_load
    \/ as_node_create_socket_store
    \/ as_event_connect_load
    \/ as_event_connect_store

SpecHint == InitAddress /\ [][NextHint]_vars

\* C39: node->address_index always designates a slot that holds an address:
\* it is below address4_size, or from AS_ADDRESS4_MAX on and below
\* AS_ADDRESS4_MAX + address6_size; so does every hint a connecting thread
\* has loaded and not yet used.
C39_HintPopulated ==
    /\ \/ (address_index >= 0 /\ address_index < address4_size)
       \/ (address_index >= AS_ADDRESS4_MAX
              /\ address_index < AS_ADDRESS4_MAX + address6_size)
    /\ addresses[address_index] # FreeSlot
    /\ \A t \in Connectors :
           attempt[t].pc = "loaded" => addresses[attempt[t].index] # FreeSlot

\* C39 witness: the node was created with an IPv4 address, the event loop
\* loaded the hint 0, and meanwhile a sync connect moved the hint to the
\* second IPv6 address.
C39_Witness ==
    /\ address_index = AS_ADDRESS4_MAX + 1
    /\ address4_size >= 1
    /\ attempt["async"] = [pc |-> "loaded", index |-> 0]
    /\ attempt["sync"].pc = "idle"

====
